---- MODULE Spec2Model ----
(***************************************************************************)
(* Model of the fan-out / fan-in request orchestrator                      *)
(* (services/request-orchestrator/app/orchestrator.py) together with the   *)
(* task worker (services/vnas/app/processor.py) and the shared updates     *)
(* stream they communicate over.                                           *)
(*                                                                         *)
(* One RequestOrchestrator.run is modelled step by step (pc), the worker   *)
(* handles the payloads the invoker was handed, and the environment may    *)
(* append further entries to the shared updates stream.                    *)
(***************************************************************************)
EXTENDS Integers, Sequences, FiniteSets, TLC

VARIABLES
    groupSizes,     \* number of hydrated valuations of each group, in document order
    task_invoker,   \* input: the configured invoker ("None" when not configured)
    fault,          \* the step at which the environment made run() fail ("none" so far)
    pc,             \* position of run()
    error,          \* exception run() raised ("none" while running / after return)
    index,          \* run(): loop variable of `for index, group in enumerate(groups)`
    valuation_index,\* _dispatch_group: tasks dispatched so far in the current group
    completed,      \* _await_group_completion: local counter
    pending_failures,\* _await_group_completion: stream positions of exhausted failures
    deadlinePassed, \* time.time() > deadline, for the current group
    requestState,   \* hash request:{id}: [status, failureAt]
    groupState,     \* hashes request:{id}:group:{idx}
    lifecycle,      \* lifecycle stream entries of this request
    failureBlob,    \* cache:request:{id}:failure ("null" or its last writer)
    response,       \* response key written?
    payloads,       \* task payload keys that hold XML
    results,        \* task result keys that hold result XML
    assembled,      \* per group: result valuations appended to the in-memory group element
    updates,        \* the updates stream (all entries ever added)
    cursor,         \* consumer group req::{id}: last delivered position (-1: no group yet)
    pel,            \* consumer group: delivered and not acknowledged positions
    inflight,       \* payloads handed to the invoker and not yet handled by a worker
    invoked,        \* history: every payload ever handed to the invoker
    handled,        \* history: <<stream position, outcome>> of every delivered update
    workerLog,      \* history: <<payload, outcome, stream position of its update (0: none)>>
    foreignCount,   \* number of entries the environment appended to the updates stream
    event,          \* input: event.get("responseKey"), drawn when run() first uses it
    responseStored, \* the key the response XML was written under ("none": not written)
    response_xml,   \* the group elements of the stored response, in document order
    returned,       \* run()'s return value: its responseKey ("none": not returned)
    \* Two orchestrators over one updates stream (specification SpecShared)
    requestGroups,  \* input: per request, the number of valuations of each group
    orchestrators,  \* per request: the locals and stores of its run()
    consumer_groups,\* per consumer group name: created?, last delivered position, pending
    task_updates,   \* the shared updates stream
    lambda_queue,   \* dispatch payloads handed to the invoker and not yet handled
    task_results,   \* result keys that hold result XML: <<requestId, groupIdx, taskId>>
    \* The hydration engine (specifications SpecHydrate and SpecLink)
    h_element,      \* input: the element handed to hydrate_element
    link_matches,   \* input: what the vn:link source XPath matches in the document root
    href_remote,    \* input: the remote node an href resolves to ("missing": fetch fails)
    select_source,  \* input: the select attribute: its expression and what it resolves to
    use_attr,       \* input: the value of the `use` attribute
    h_items,        \* _apply_strategies: hydrated_items ([ok, items]; ok=FALSE: raised)
    h_pass,         \* _apply_strategies: index of the next strategy (0: not called)
    \* _dispatch_group's descriptors (specification SpecKeys)
    k_groups,       \* input: number of groups of the request
    k_valuations,   \* input: number of hydrated valuations of each group
    k_group_index,  \* run(): index of the group being dispatched
    k_valuation_index, \* _dispatch_group: valuation_index
    descriptors,    \* every TaskDescriptor created so far, in dispatch order
    u_items,        \* input: the items UseFunctionHydrationStrategy.apply is called with
    u_result,       \* what the call returned or raised
    u_pc,           \* "idle", "call" or "returned"
    m_local,        \* input: the local node of a merge (attributes, text, tail)
    m_remote,       \* input: the resolved remote node of the merge
    m_merged,       \* the node that replaces the local node
    m_kind,         \* "idle", "call", or the reference the merge was made for
    a_shape,        \* input: what the element has (href or select below it, own use)
    a_source,       \* input: what the node a select refers to has (href, use)
    a_children,     \* input: the number of children vn:link matches
    a_heap,         \* the trees created so far and the trees written to in place
    a_items,        \* the items of the call: the tree of each element, its context node
    a_pass,         \* 0: not called, i: strategy i is next, 5: returned, 6: caller wrote
    \* One SelectHydrationStrategy instance over several calls (specification SpecCache)
    c_root,         \* the document root the caller holds: its identity and what matches in it
    reference_cache,\* SelectHydrationStrategy._reference_cache
    c_result,       \* the last _resolve_reference call: expression, matches, outcome
    \* The href loop over remote documents (specification SpecRemote)
    remote_parent,  \* input: the remote elements, each with its parent (0: a document root)
    remote_href,    \* input: per remote element, the remote element its href resolves to
    nodes_with_href,\* the remote elements whose copies in the element carry href
    r_pc            \* "idle", "loop", "returned" or "raised"

(* The event's responseKey, the stored response and the returned value *)
ioVars == <<event, responseStored, response_xml, returned>>

(* State of the single run of specification Spec *)
runVars == <<groupSizes, task_invoker, fault, pc, error, index, valuation_index, completed,
             pending_failures, deadlinePassed, requestState, groupState, lifecycle,
             failureBlob, response, payloads, results, assembled, updates, cursor,
             pel, inflight, invoked, handled, workerLog, foreignCount, ioVars>>

(* State of the two concurrent runs of specification SpecShared *)
sharedVars == <<requestGroups, orchestrators, consumer_groups, task_updates,
                lambda_queue, task_results>>

(* State of the hydration engine *)
hydVars == <<h_element, link_matches, href_remote, select_source, use_attr, h_items, h_pass>>

keyVars == <<k_groups, k_valuations, k_group_index, k_valuation_index, descriptors>>

(* The variables of the specifications of single functions *)
useVars == <<u_items, u_result, u_pc>>

mergeVars == <<m_local, m_remote, m_merged, m_kind>>

treeVars == <<a_shape, a_source, a_children, a_heap, a_items, a_pass>>

cacheVars == <<c_root, reference_cache, c_result>>

remoteVars == <<remote_parent, remote_href, nodes_with_href, r_pc>>

strategyVars == <<cacheVars, remoteVars>>

pureVars == <<keyVars, useVars, mergeVars, treeVars, strategyVars>>

vars == <<runVars, sharedVars, hydVars, pureVars>>

----------------------------------------------------------------------------
(* Bounds of the model *)
MaxGroups == 2
MaxTasks == 2
MaxForeign == 1

(* constants.MAX_TASK_RETRIES *)
MAX_TASK_RETRIES == 3

THIS_REQUEST == "req"
OTHER_REQUEST == "other"

(* Field names of the dictionaries exchanged between orchestrator and worker *)
DispatchKeys ==
    {"requestId", "groupIdx", "groupName", "taskId", "payloadKey", "resultKey", "attempt"}

WorkerUpdateKeys ==
    {"requestId", "groupIdx", "groupName", "taskId", "valuationName", "resultKey",
     "status", "attempt", "result"}

EchoUpdateKeys == DispatchKeys \cup {"status", "result"}

ParseEntryRequiredKeys == {"requestId", "groupIdx", "taskId", "payloadKey", "resultKey"}

(* What can go wrong before the group loop, and the exception it raises *)
LoadFaults == {"xml_missing", "xml_malformed", "no_project", "hydrate_root"}

LoadException(f) ==
    IF f \in {"xml_missing", "xml_malformed"} THEN "ValueError"
    ELSE IF f = "no_project" THEN "AttributeError"
    ELSE "HydrationError"

GroupIndices == 0 .. (MaxGroups - 1)
NoGroupState == [expected |-> -1, completed |-> -1, failed |-> -1, status |-> "none"]

GroupCount == Len(groupSizes)
Expected(i) == groupSizes[i + 1]


----------------------------------------------------------------------------
(* Values *)

LifecycleEntry(status, group) == [status |-> status, group |-> group]

(* A dispatch payload / retry payload as handed to the invoker.  The request *)
(* id is always that of the running request (retries are only built from     *)
(* updates that passed the requestId filter).                                *)
Payload(g, t, a, ks) == [groupIdx |-> g, taskId |-> t, attempt |-> a, keys |-> ks]

UpdateEvent(r, g, t, st, a, ks) ==
    [requestId |-> r, groupIdx |-> g, taskId |-> t, status |-> st,
     attempt |-> a, keys |-> ks]

(* Entries the environment (another publisher on the shared stream) may add. *)
(* The orchestrator reads the attempt only of a `failed` entry and copies    *)
(* the keys only into a retry, and it drops an entry of an unknown task or  *)
(* of another request whatever else it holds: the entries are drawn with    *)
(* one value of every field that is never read.                             *)
ForeignEvents ==
    {UpdateEvent(THIS_REQUEST, g, t, "failed", a, ks) :
        g \in GroupIndices, t \in 1 .. MaxTasks, a \in 1 .. (MAX_TASK_RETRIES - 1),
        ks \in {WorkerUpdateKeys, EchoUpdateKeys}}
    \cup {UpdateEvent(THIS_REQUEST, g, t, "failed", MAX_TASK_RETRIES, WorkerUpdateKeys) :
        g \in GroupIndices, t \in 1 .. MaxTasks}
    \cup {UpdateEvent(THIS_REQUEST, g, t, st, 1, WorkerUpdateKeys) :
        g \in GroupIndices, t \in 1 .. MaxTasks, st \in {"completed", "other"}}
    \cup {UpdateEvent(THIS_REQUEST, g, MaxTasks + 1, "completed", 1, WorkerUpdateKeys) :
        g \in GroupIndices}
    \cup {UpdateEvent(OTHER_REQUEST, 0, 1, "completed", 1, WorkerUpdateKeys)}

----------------------------------------------------------------------------
InitRun ==
    /\ groupSizes \in UNION {[1 .. g -> 0 .. MaxTasks] : g \in 0 .. MaxGroups}
    /\ task_invoker \in {"invoker", "None"}
    /\ fault = "none"
    /\ pc = "load"
    /\ error = "none"
    /\ index = 0
    /\ valuation_index = 0
    /\ completed = 0
    /\ pending_failures = <<>>
    /\ deadlinePassed = FALSE
    /\ requestState = [status |-> "none", failureAt |-> FALSE]
    /\ groupState = [i \in GroupIndices |-> NoGroupState]
    /\ lifecycle = <<>>
    /\ failureBlob = "null"
    /\ response = FALSE
    /\ payloads = {}
    /\ results = {}
    /\ assembled = [i \in GroupIndices |-> <<>>]
    /\ updates = <<>>
    /\ cursor = -1
    /\ pel = {}
    /\ inflight = {}
    /\ invoked = {}
    /\ handled = {}
    /\ workerLog = {}
    /\ foreignCount = 0
    /\ event = "unread"
    /\ responseStored = "none"
    /\ response_xml = <<>>
    /\ returned = "none"

(* The variables of SpecShared while the single run of Spec is explored *)
SharedIdle ==
    /\ requestGroups = <<>>
    /\ orchestrators = <<>>
    /\ consumer_groups = <<>>
    /\ task_updates = <<>>
    /\ lambda_queue = {}
    /\ task_results = {}

(* The variables of the hydration engine while it is not explored *)
HydrationIdle ==
    /\ h_element = <<>>
    /\ link_matches = <<>>
    /\ href_remote = <<>>
    /\ select_source = <<>>
    /\ use_attr = <<>>
    /\ h_items = <<>>
    /\ h_pass = 0

(* The variables of _dispatch_group's descriptors while they are not explored *)
KeysIdle ==
    /\ k_groups = 0
    /\ k_valuations = 0
    /\ k_group_index = 0
    /\ k_valuation_index = 0
    /\ descriptors = <<>>

UseIdle ==
    /\ u_items = <<>>
    /\ u_result = <<>>
    /\ u_pc = "idle"

MergeIdle ==
    /\ m_local = <<>>
    /\ m_remote = <<>>
    /\ m_merged = <<>>
    /\ m_kind = "idle"

TreesIdle ==
    /\ a_shape = <<>>
    /\ a_source = <<>>
    /\ a_children = 0
    /\ a_heap = <<>>
    /\ a_items = <<>>
    /\ a_pass = 0

CacheIdle ==
    /\ c_root = <<>>
    /\ reference_cache = <<>>
    /\ c_result = <<>>

RemoteIdle ==
    /\ remote_parent = <<>>
    /\ remote_href = <<>>
    /\ nodes_with_href = {}
    /\ r_pc = "idle"

StrategyIdle == CacheIdle /\ RemoteIdle

PureIdle == KeysIdle /\ UseIdle /\ MergeIdle /\ TreesIdle /\ StrategyIdle

Init == InitRun /\ SharedIdle /\ HydrationIdle /\ PureIdle

----------------------------------------------------------------------------
(* Orchestrator helpers *)

(* _publish_lifecycle *)
PublishLifecycle(l, status, group) == Append(l, LifecycleEntry(status, group))

(* _record_request_failure: set the failure blob, mark status=failed with   *)
(* failureAt, publish "failed".  Returns the three stores it writes.        *)
RecordRequestFailure(st) ==
    [failureBlob |-> "orchestrator",
     requestState |-> [st.requestState EXCEPT !.status = "failed", !.failureAt = TRUE],
     lifecycle |-> PublishLifecycle(st.lifecycle, "failed", -1)]

Stores == [failureBlob |-> failureBlob, requestState |-> requestState,
           lifecycle |-> lifecycle]

(* RaiseUncaught as it would be if the except clause of run() covered the    *)
(* step: the failure is recorded before the exception propagates.            *)
RaiseUncaught_Recorded(f, exc) ==
    LET after == RecordRequestFailure(Stores) IN
    /\ pc' = "raised"
    /\ fault' = f
    /\ error' = exc
    /\ failureBlob' = after.failureBlob
    /\ requestState' = after.requestState
    /\ lifecycle' = after.lifecycle

(* An exception that leaves run() without passing through its except clause *)
RaiseUncaught(f, exc) ==
    /\ pc' = "raised"
    /\ fault' = f
    /\ error' = exc
    /\ UNCHANGED <<requestState, lifecycle, failureBlob>>

(* RaiseInGroupLoop without the except clause: the exception just propagates *)
RaiseInGroupLoop_NoRecord(f, exc, st) ==
    /\ pc' = "raised"
    /\ fault' = f
    /\ error' = exc
    /\ failureBlob' = st.failureBlob
    /\ requestState' = st.requestState
    /\ lifecycle' = st.lifecycle

(* run(): `except Exception as exc: self._record_request_failure(...); raise` *)
(* applied to the stores `st` as the failing step left them.                *)
RaiseInGroupLoop(f, exc, st) ==
    LET after == RecordRequestFailure(st) IN
    /\ pc' = "raised"
    /\ fault' = f
    /\ error' = exc
    /\ failureBlob' = after.failureBlob
    /\ requestState' = after.requestState
    /\ lifecycle' = after.lifecycle


----------------------------------------------------------------------------
(* run(), up to the group loop *)

(* run() lines 78-97: read the request XML, parse it, hydrate the root,     *)
(* find the project and count its groups.  None of this is inside a try.    *)
LoadRequest ==
    /\ pc = "load"
    /\ \/ \E f \in LoadFaults : RaiseUncaught(f, LoadException(f))
       \/ /\ pc' = "ensure"
          /\ UNCHANGED <<fault, error, requestState, lifecycle, failureBlob>>
    /\ UNCHANGED <<sharedVars, hydVars, pureVars, ioVars, groupSizes, task_invoker, index, valuation_index, completed,
                   pending_failures, deadlinePassed, groupState, response, payloads,
                   results, assembled, updates, cursor, pel, inflight, invoked,
                   handled, workerLog, foreignCount>>

(* What redis xgroup_create does: it creates the group, or raises because   *)
(* the group exists (BUSYGROUP), or raises another error.                    *)
XGroupCreateOutcomes == {"created", "BUSYGROUP", "ResponseError"}

(* _ensure_updates_consumer_group that re-raises every exception *)
EnsureRaises_Always(outcome) == outcome # "created"

(* _ensure_updates_consumer_group lines 377-390:                             *)
(* `except Exception as exc: if "BUSYGROUP" not in str(exc): raise`          *)
EnsureRaises(outcome) == outcome \notin {"created", "BUSYGROUP"}

(* run() without the call of _ensure_updates_consumer_group in line 100 *)
StartRequest_NoEnsure ==
    /\ pc = "ensure"
    /\ requestState' = [requestState EXCEPT !.status = "started"]
    /\ lifecycle' = PublishLifecycle(lifecycle, "started", -1)
    /\ pc' = "loop"
    /\ UNCHANGED <<fault, error, failureBlob, cursor>>
    /\ UNCHANGED <<sharedVars, hydVars, pureVars, ioVars, groupSizes, task_invoker, index, valuation_index, completed,
                   pending_failures, deadlinePassed, groupState, response, payloads,
                   results, assembled, updates, pel, inflight, invoked, handled,
                   workerLog, foreignCount>>

(* run() lines 100-102: _ensure_updates_consumer_group, status=started,     *)
(* publish "started".  A group that is created starts at "$", the end of    *)
(* the stream; a group that exists already has delivered the stream up to   *)
(* some earlier position.                                                    *)
StartRequest ==
    /\ pc = "ensure"
    /\ \E outcome \in XGroupCreateOutcomes :
         IF EnsureRaises(outcome)
         THEN /\ RaiseUncaught("xgroup_create", outcome)
              /\ UNCHANGED cursor
         ELSE /\ IF outcome = "created"
                 THEN cursor' = Len(updates)
                 ELSE cursor' \in 0 .. Len(updates)
              /\ requestState' = [requestState EXCEPT !.status = "started"]
              /\ lifecycle' = PublishLifecycle(lifecycle, "started", -1)
              /\ pc' = "loop"
              /\ UNCHANGED <<fault, error, failureBlob>>
    /\ UNCHANGED <<sharedVars, hydVars, pureVars, ioVars, groupSizes, task_invoker, index, valuation_index, completed,
                   pending_failures, deadlinePassed, groupState, response, payloads,
                   results, assembled, updates, pel, inflight, invoked, handled,
                   workerLog, foreignCount>>

(* _dispatch_group that leaves the status field of the hash unset *)
InitialGroupState_NoStatus(expected) ==
    [expected |-> expected, completed |-> 0, failed |-> 0, status |-> "none"]

(* _dispatch_group lines 154-159: the mapping of the first hset *)
InitialGroupState(expected) ==
    [expected |-> expected, completed |-> 0, failed |-> 0, status |-> "running"]

(* run() lines 105-108 and _dispatch_group lines 138-159: mark running,     *)
(* publish group_started, hydrate the group and its valuations, initialise  *)
(* the group-state hash.                                                    *)
BeginGroup ==
    /\ pc = "loop"
    /\ index < GroupCount
    /\ LET rs == [requestState EXCEPT !.status = "running"]
           lc == PublishLifecycle(lifecycle, "group_started", index)
       IN \E raises \in BOOLEAN :
            IF raises
            THEN /\ RaiseInGroupLoop("hydrate_group", "HydrationError",
                        [failureBlob |-> failureBlob, requestState |-> rs, lifecycle |-> lc])
                 /\ UNCHANGED <<groupState, valuation_index>>
            ELSE /\ requestState' = rs
                 /\ lifecycle' = lc
                 /\ groupState' = [groupState EXCEPT ![index] =
                        InitialGroupState(Expected(index))]
                 /\ valuation_index' = 0
                 /\ pc' = "dispatch"
                 /\ UNCHANGED <<fault, error, failureBlob>>
    /\ UNCHANGED <<sharedVars, hydVars, pureVars, ioVars, groupSizes, task_invoker, index, completed, pending_failures,
                   deadlinePassed, response, payloads, results, assembled, updates,
                   cursor, pel, inflight, invoked, handled, workerLog, foreignCount>>

(* _dispatch_group lines 182-210, one iteration: store the task XML, build   *)
(* the dispatch payload, _invoke_task_processor, record the descriptor.      *)
DispatchTask ==
    /\ pc = "dispatch"
    /\ valuation_index < Expected(index)
    /\ LET task_id == valuation_index + 1
           dispatch_payload == Payload(index, task_id, 1, DispatchKeys)
       IN /\ payloads' = payloads \cup {<<index, task_id>>}
          /\ IF task_invoker = "None"
             THEN /\ RaiseInGroupLoop("invoker_none", "RuntimeError", Stores)
                  /\ UNCHANGED <<valuation_index, inflight, invoked>>
             ELSE \E raises \in BOOLEAN :
                    /\ invoked' = invoked \cup {dispatch_payload}
                    /\ IF raises
                       THEN /\ RaiseInGroupLoop("invoker_raises", "InvokerError", Stores)
                            /\ UNCHANGED <<valuation_index, inflight>>
                       ELSE /\ inflight' = inflight \cup {dispatch_payload}
                            /\ valuation_index' = task_id
                            /\ UNCHANGED <<pc, fault, error, requestState, lifecycle,
                                           failureBlob>>
    /\ UNCHANGED <<sharedVars, hydVars, pureVars, ioVars, groupSizes, task_invoker, index, completed, pending_failures,
                   deadlinePassed, groupState, response, results, assembled, updates,
                   cursor, pel, handled, workerLog, foreignCount>>

(* _await_group_completion lines 240-252: locals, deadline, and the removal  *)
(* of the group's valuation nodes.                                           *)
AwaitStart ==
    /\ pc = "dispatch"
    /\ valuation_index = Expected(index)
    /\ completed' = 0
    /\ pending_failures' = <<>>
    /\ deadlinePassed' = FALSE
    /\ assembled' = [assembled EXCEPT ![index] = <<>>]
    /\ pc' = "await"
    /\ UNCHANGED <<sharedVars, hydVars, pureVars, ioVars, groupSizes, task_invoker, fault, error, index, valuation_index, requestState,
                   groupState, lifecycle, failureBlob, response, payloads, results,
                   updates, cursor, pel, inflight, invoked, handled, workerLog, foreignCount>>


----------------------------------------------------------------------------
(* _await_group_completion: the loop *)

Min(a, b) == IF a < b THEN a ELSE b

(* _enqueue_retry: a copy of the update's values with attempt replaced *)
RetryPayload(m, attempt) == Payload(m.groupIdx, m.taskId, attempt, m.keys \cup {"attempt"})

(* ShouldRetry with the comparison off by one *)
ShouldRetry_OffByOne(attempt_value) == attempt_value <= MAX_TASK_RETRIES

(* Line 313: `if attempt_value < MAX_TASK_RETRIES` *)
ShouldRetry(attempt_value) == attempt_value < MAX_TASK_RETRIES

(* AwaitMore that stops one completion early *)
AwaitMore_OneShort(done, expected) == done + 1 < expected

(* Line 254: `while completed < expected` *)
AwaitMore(done, expected) == done < expected

(* HasPendingFailures that never looks at the list *)
HasPendingFailures_Never(pending) == FALSE

(* Line 323: `if pending_failures` *)
HasPendingFailures(pending) == pending # <<>>

(* KnownTask that finds a descriptor for every task id *)
KnownTask_Any(task_id) == TRUE

(* Line 294: descriptor_by_task.get(task_id) is not None *)
KnownTask(task_id) == task_id \in 1 .. valuation_index

(* SameRequest that lets every entry of the shared stream through *)
SameRequest_Any(m) == TRUE

(* Line 284: `entry_request_id != request_id` is false *)
SameRequest(m) == m.requestId = THIS_REQUEST

(* SameGroup that takes an entry of any group for the awaited one *)
SameGroup_Any(m) == TRUE

(* Lines 287-288: `entry_group != group_index` is false *)
SameGroup(m) == m.groupIdx = index

(* AppendResult that keeps the group element in task (dispatch) order *)
AppendResult_DispatchOrder(elem, task_id) ==
    LET before == SelectSeq(elem, LAMBDA t : t <= task_id)
        after == SelectSeq(elem, LAMBDA t : t > task_id)
    IN before \o <<task_id>> \o after

(* Line 305: group.append(copy.deepcopy(valudation_result)) *)
AppendResult(elem, task_id) == Append(elem, task_id)

(* xack that removes nothing from the pending list *)
XAck_Lost(pending, acks) == pending

(* Lines 285, 296, 321: redis.xack takes the acknowledged entries out of the *)
(* pending list of the consumer group.                                       *)
XAck(pending, acks) == pending \ acks

(* Locals and stores of the loop body, threaded through one batch *)
BatchStart ==
    [completed |-> completed, pending |-> pending_failures, elem |-> assembled[index],
     gs |-> groupState[index], acks |-> {}, retries |-> {}, handed |-> {},
     log |-> {}, calls |-> 0, fault |-> "none", exc |-> "none"]

(* Lines 272-321: the handling of one delivered message, at stream position *)
(* k.  raiseAt: which retry invocation of this batch the invoker rejects    *)
(* (0: none).                                                               *)
ProcessMessage(s, k, raiseAt) ==
    LET m == updates[k]
        ack == s.acks \cup {k}
    IN
    IF ~SameRequest(m)
    THEN [s EXCEPT !.acks = ack, !.log = @ \cup {<<k, "other_request">>}]
    ELSE IF ~SameGroup(m)
    THEN [s EXCEPT !.log = @ \cup {<<k, "other_group">>}]
    ELSE IF ~KnownTask(m.taskId)
    THEN [s EXCEPT !.acks = ack, !.log = @ \cup {<<k, "unknown_task">>}]
    ELSE IF m.status = "completed"
    THEN IF <<index, m.taskId>> \notin results
         THEN [s EXCEPT !.completed = @ + 1, !.fault = "no_result",
                        !.exc = "AttributeError",
                        !.log = @ \cup {<<k, "no_result">>}]
         ELSE [s EXCEPT !.completed = @ + 1,
                        !.elem = AppendResult(@, m.taskId),
                        !.gs = [@ EXCEPT !.completed = s.completed + 1],
                        !.acks = ack,
                        !.log = @ \cup {<<k, "completed">>}]
    ELSE IF m.status = "failed"
    THEN IF ShouldRetry(m.attempt)
         THEN IF task_invoker = "None"
              THEN [s EXCEPT !.fault = "retry_none", !.exc = "RuntimeError",
                             !.log = @ \cup {<<k, "retry_raised">>}]
              ELSE IF s.calls + 1 = raiseAt
              THEN [s EXCEPT !.calls = @ + 1, !.fault = "retry_raises",
                             !.exc = "InvokerError",
                             !.handed = @ \cup {RetryPayload(m, m.attempt + 1)},
                             !.log = @ \cup {<<k, "retry_raised">>}]
              ELSE [s EXCEPT !.calls = @ + 1,
                             !.retries = @ \cup {RetryPayload(m, m.attempt + 1)},
                             !.handed = @ \cup {RetryPayload(m, m.attempt + 1)},
                             !.acks = ack,
                             !.log = @ \cup {<<k, "retry">>}]
         ELSE [s EXCEPT !.pending = Append(@, k),
                        !.gs = [@ EXCEPT !.failed = Len(s.pending) + 1],
                        !.acks = ack,
                        !.log = @ \cup {<<k, "exhausted">>}]
    ELSE [s EXCEPT !.acks = ack, !.log = @ \cup {<<k, "ignored">>}]

RECURSIVE ProcessBatch(_, _, _)
ProcessBatch(s, ks, raiseAt) ==
    IF ks = <<>> \/ s.exc # "none" THEN s
    ELSE ProcessBatch(ProcessMessage(s, Head(ks), raiseAt), Tail(ks), raiseAt)

(* CompleteGroup without the final hset of status=completed *)
CompleteGroup_NoStatus ==
    /\ pc = "await"
    /\ ~AwaitMore(completed, valuation_index)
    /\ lifecycle' = PublishLifecycle(lifecycle, "group_completed", index)
    /\ index' = index + 1
    /\ pc' = "loop"
    /\ UNCHANGED <<sharedVars, hydVars, pureVars, ioVars, groupSizes, task_invoker, fault, error, valuation_index, completed,
                   pending_failures, deadlinePassed, requestState, failureBlob,
                   response, payloads, results, assembled, updates, cursor, pel,
                   inflight, invoked, handled, workerLog, foreignCount, groupState>>

(* `while completed < expected` is false: lines 330-333, then run() line 110 *)
CompleteGroup ==
    /\ pc = "await"
    /\ ~AwaitMore(completed, valuation_index)
    /\ groupState' = [groupState EXCEPT ![index].status = "completed"]
    /\ lifecycle' = PublishLifecycle(lifecycle, "group_completed", index)
    /\ index' = index + 1
    /\ pc' = "loop"
    /\ UNCHANGED <<sharedVars, hydVars, pureVars, ioVars, groupSizes, task_invoker, fault, error, valuation_index, completed,
                   pending_failures, deadlinePassed, requestState, failureBlob,
                   response, payloads, results, assembled, updates, cursor, pel,
                   inflight, invoked, handled, workerLog, foreignCount>>

(* Lines 255-256 *)
TimeOut ==
    /\ pc = "await"
    /\ AwaitMore(completed, valuation_index)
    /\ deadlinePassed
    /\ RaiseInGroupLoop("deadline", "TimeoutError", Stores)
    /\ UNCHANGED <<sharedVars, hydVars, pureVars, ioVars, groupSizes, task_invoker, index, valuation_index, completed,
                   pending_failures, deadlinePassed, groupState, response, payloads,
                   results, assembled, updates, cursor, pel, inflight, invoked,
                   handled, workerLog, foreignCount>>

(* Lines 254-264: the deadline has not passed; xreadgroup is issued and blocks *)
AwaitPoll ==
    /\ pc = "await"
    /\ AwaitMore(completed, valuation_index)
    /\ ~deadlinePassed
    /\ pc' = "read"
    /\ UNCHANGED <<sharedVars, hydVars, pureVars, ioVars, groupSizes, task_invoker, fault, error, index, valuation_index, completed,
                   pending_failures, deadlinePassed, requestState, groupState,
                   lifecycle, failureBlob, response, payloads, results, assembled,
                   updates, cursor, pel, inflight, invoked, handled, workerLog,
                   foreignCount>>

(* Lines 258-328: xreadgroup returns up to `expected` new entries; they are  *)
(* handled in order; then the pending failures are looked at.               *)
AwaitRead ==
    /\ pc = "read"
    /\ LET n == Min(valuation_index, Len(updates) - cursor)
           ks == [i \in 1 .. n |-> cursor + i]
       IN \E raiseAt \in 0 .. n :
          LET s == ProcessBatch(BatchStart, ks, raiseAt) IN
          /\ cursor' = cursor + n
          /\ pel' = XAck(pel \cup {ks[i] : i \in 1 .. n}, s.acks)
          /\ completed' = s.completed
          /\ pending_failures' = s.pending
          /\ assembled' = [assembled EXCEPT ![index] = s.elem]
          /\ groupState' = [groupState EXCEPT ![index] = s.gs]
          /\ inflight' = inflight \cup s.retries
          /\ invoked' = invoked \cup s.handed
          /\ handled' = handled \cup s.log
          /\ IF s.exc # "none"
             THEN RaiseInGroupLoop(s.fault, s.exc, Stores)
             ELSE IF HasPendingFailures(s.pending)
             THEN RaiseInGroupLoop("task_failures", "RuntimeError",
                                   RecordRequestFailure(Stores))
             ELSE /\ pc' = "await"
                  /\ UNCHANGED <<fault, error, requestState, lifecycle, failureBlob>>
    /\ UNCHANGED <<sharedVars, hydVars, pureVars, ioVars, groupSizes, task_invoker, index, valuation_index, deadlinePassed,
                   response, payloads, results, updates, workerLog, foreignCount>>

(* The wall clock passes the deadline of the group being awaited *)
DeadlinePasses ==
    /\ pc \in {"await", "read"}
    /\ ~deadlinePassed
    /\ deadlinePassed' = TRUE
    /\ UNCHANGED <<sharedVars, hydVars, pureVars, ioVars, groupSizes, task_invoker, fault, pc, error, index, valuation_index, completed,
                   pending_failures, requestState, groupState, lifecycle, failureBlob,
                   response, payloads, results, assembled, updates, cursor, pel,
                   inflight, invoked, handled, workerLog, foreignCount>>

----------------------------------------------------------------------------
(* run(), after the group loop: lines 119-133, outside the try *)

(* What event.get("responseKey") can be: absent, empty, or a key *)
EventResponseKeys == {"None", "", "cache:supplied"}

DefaultResponseKey == "cache:request:req:response"

(* ResponseKey that ignores the key the event supplies *)
ResponseKey_AlwaysDefault(key) == DefaultResponseKey

(* run() line 80: `event.get("responseKey") or f"cache:request:{id}:response"`; *)
(* the local is first used at line 120.                                         *)
ResponseKey(key) == IF key \in {"None", ""} THEN DefaultResponseKey ELSE key

(* tostring that writes only the groups that received a result *)
tostring_GroupsWithResults(root) ==
    LET with == {i \in 0 .. (GroupCount - 1) : root[i] # <<>>}
        RECURSIVE Emit(_)
        Emit(i) == IF i = GroupCount THEN <<>>
                   ELSE IF i \in with
                        THEN <<[group |-> i, valuations |-> root[i]]>> \o Emit(i + 1)
                        ELSE Emit(i + 1)
    IN Emit(0)

(* run() line 119: etree.tostring(root): the group elements of the project  *)
(* as they stand in the tree, each with the valuations appended to it.       *)
tostring(root) ==
    [i \in 1 .. GroupCount |-> [group |-> i - 1, valuations |-> root[i - 1]]]

WriteResponse ==
    /\ pc = "loop"
    /\ index = GroupCount
    /\ \E key \in EventResponseKeys :
         /\ event' = key
         /\ \/ /\ RaiseUncaught("set_response", "ConnectionError")
               /\ UNCHANGED <<response, responseStored, response_xml>>
            \/ /\ response' = TRUE
               /\ responseStored' = ResponseKey(key)
               /\ response_xml' = tostring(assembled)
               /\ pc' = "mark"
               /\ UNCHANGED <<fault, error, requestState, lifecycle, failureBlob>>
    /\ UNCHANGED <<sharedVars, hydVars, pureVars, returned, groupSizes, task_invoker, index, valuation_index, completed,
                   pending_failures, deadlinePassed, groupState, payloads, results,
                   assembled, updates, cursor, pel, inflight, invoked, handled,
                   workerLog, foreignCount>>

MarkSucceeded ==
    /\ pc = "mark"
    /\ \/ RaiseUncaught("mark_succeeded", "ConnectionError")
       \/ /\ requestState' = [requestState EXCEPT !.status = "succeeded"]
          /\ pc' = "publish"
          /\ UNCHANGED <<fault, error, lifecycle, failureBlob>>
    /\ UNCHANGED <<sharedVars, hydVars, pureVars, ioVars, groupSizes, task_invoker, index, valuation_index, completed,
                   pending_failures, deadlinePassed, groupState, response, payloads,
                   results, assembled, updates, cursor, pel, inflight, invoked,
                   handled, workerLog, foreignCount>>

PublishCompleted ==
    /\ pc = "publish"
    /\ \/ RaiseUncaught("publish_completed", "ConnectionError") /\ UNCHANGED returned
       \/ /\ lifecycle' = PublishLifecycle(lifecycle, "completed", -1)
          /\ returned' = ResponseKey(event)
          /\ pc' = "returned"
          /\ UNCHANGED <<fault, error, requestState, failureBlob>>
    /\ UNCHANGED <<sharedVars, hydVars, pureVars, event, responseStored, response_xml, groupSizes, task_invoker, index, valuation_index, completed,
                   pending_failures, deadlinePassed, groupState, response, payloads,
                   results, assembled, updates, cursor, pel, inflight, invoked,
                   handled, workerLog, foreignCount>>

----------------------------------------------------------------------------
(* The worker: TaskProcessor.handle_dispatch on one payload the invoker was  *)
(* handed.                                                                   *)

(* _publish_update *)
PublishUpdate(p, status) ==
    Append(updates,
           UpdateEvent(THIS_REQUEST, p.groupIdx, p.taskId, status, p.attempt,
                       WorkerUpdateKeys))

(* _parse_entry succeeds only when the subscripted keys are present *)
ParseEntryOk(p) == ParseEntryRequiredKeys \subseteq p.keys

WorkerHandle ==
    \E p \in inflight :
      /\ inflight' = inflight \ {p}
      /\ IF ~ParseEntryOk(p)
         THEN \* KeyError raised by _parse_entry, before the try
              /\ workerLog' = workerLog \cup {<<p, "KeyError", 0>>}
              /\ UNCHANGED <<updates, results, failureBlob>>
         ELSE IF <<p.groupIdx, p.taskId>> \notin payloads
         THEN /\ updates' = PublishUpdate(p, "failed")
              /\ failureBlob' = "worker"
              /\ workerLog' = workerLog \cup {<<p, "failed", Len(updates) + 1>>}
              /\ UNCHANGED results
         ELSE \E ok \in BOOLEAN :
                IF ok
                THEN /\ results' = results \cup {<<p.groupIdx, p.taskId>>}
                     /\ updates' = PublishUpdate(p, "completed")
                     /\ workerLog' = workerLog \cup {<<p, "completed", Len(updates) + 1>>}
                     /\ UNCHANGED failureBlob
                ELSE /\ updates' = PublishUpdate(p, "failed")
                     /\ failureBlob' = "worker"
                     /\ workerLog' = workerLog \cup {<<p, "failed", Len(updates) + 1>>}
                     /\ UNCHANGED results
      /\ UNCHANGED <<sharedVars, hydVars, pureVars, ioVars, groupSizes, task_invoker, fault, pc, error, index, valuation_index, completed,
                     pending_failures, deadlinePassed, requestState, groupState,
                     lifecycle, response, payloads, assembled, cursor, pel, invoked,
                     handled, foreignCount>>

(* Another publisher appends an entry to the shared updates stream *)
ForeignPublish ==
    /\ foreignCount < MaxForeign
    /\ pc \notin {"returned", "raised"}
    /\ \E e \in ForeignEvents : updates' = Append(updates, e)
    /\ foreignCount' = foreignCount + 1
    /\ UNCHANGED <<sharedVars, hydVars, pureVars, ioVars, groupSizes, task_invoker, fault, pc, error, index, valuation_index, completed,
                   pending_failures, deadlinePassed, requestState, groupState,
                   lifecycle, failureBlob, response, payloads, results, assembled,
                   cursor, pel, inflight, invoked, handled, workerLog>>

----------------------------------------------------------------------------
Next ==
    \/ LoadRequest
    \/ StartRequest
    \/ BeginGroup
    \/ DispatchTask
    \/ AwaitStart
    \/ AwaitPoll
    \/ AwaitRead
    \/ CompleteGroup
    \/ TimeOut
    \/ DeadlinePasses
    \/ WriteResponse
    \/ MarkSucceeded
    \/ PublishCompleted
    \/ WorkerHandle
    \/ ForeignPublish

Spec == Init /\ [][Next]_vars


----------------------------------------------------------------------------
(* Two orchestrators, one per request, over the one updates stream.  Each    *)
(* run() is the run() above with the steps that concern the stream: the      *)
(* consumer group, the dispatches, the reads and the handling of the         *)
(* delivered entries.  The workers complete every task.                      *)

Requests == {THIS_REQUEST, OTHER_REQUEST}

(* ConsumerGroupName that gives every request the same group *)
ConsumerGroupName_Shared(r) == <<"req::", "shared">>

(* _consumer_group_name: f"req::{request_id}" *)
ConsumerGroupName(r) == <<"req::", r>>

GroupNames == {ConsumerGroupName(r) : r \in Requests}

(* The variables of Spec while the two runs of SpecShared are explored *)
RunIdle ==
    /\ InitRun
    /\ groupSizes = <<>>
    /\ task_invoker = "invoker"

InitShared ==
    /\ RunIdle
    /\ HydrationIdle
    /\ PureIdle
    /\ requestGroups \in
         [Requests -> UNION {[1 .. g -> 1 .. MaxTasks] : g \in 1 .. MaxGroups}]
    /\ orchestrators =
         [r \in Requests |->
            [pc |-> "ensure", status |-> "none", index |-> 0, valuation_index |-> 0,
             completed |-> 0, group |-> [i \in GroupIndices |-> <<>>],
             delivered |-> {}, counted |-> {}]]
    /\ consumer_groups =
         [n \in GroupNames |-> [created |-> FALSE, last_delivered |-> 0, pending |-> {}]]
    /\ task_updates = <<>>
    /\ lambda_queue = {}
    /\ task_results = {}

(* run() lines 100-102: xgroup_create at "$" (BUSYGROUP is swallowed), then  *)
(* status=started.                                                           *)
EnsureGroup(r) ==
    LET name == ConsumerGroupName(r) IN
    /\ orchestrators[r].pc = "ensure"
    /\ consumer_groups' =
         IF consumer_groups[name].created THEN consumer_groups
         ELSE [consumer_groups EXCEPT ![name] =
                 [created |-> TRUE, last_delivered |-> Len(task_updates), pending |-> {}]]
    /\ orchestrators' = [orchestrators EXCEPT ![r].pc = "loop", ![r].status = "started"]
    /\ UNCHANGED <<runVars, hydVars, pureVars, requestGroups, task_updates, lambda_queue, task_results>>

(* run() lines 105-108 and _dispatch_group up to the task loop *)
StartGroup(r) ==
    /\ orchestrators[r].pc = "loop"
    /\ orchestrators[r].index < Len(requestGroups[r])
    /\ orchestrators' = [orchestrators EXCEPT ![r].pc = "dispatch",
                                               ![r].status = "running",
                                               ![r].valuation_index = 0]
    /\ UNCHANGED <<runVars, hydVars, pureVars, requestGroups, consumer_groups, task_updates, lambda_queue,
                   task_results>>

(* _dispatch_group lines 182-210, one iteration *)
DispatchOne(r) ==
    LET o == orchestrators[r] IN
    /\ o.pc = "dispatch"
    /\ o.valuation_index < requestGroups[r][o.index + 1]
    /\ lambda_queue' = lambda_queue \cup
          {[requestId |-> r, groupIdx |-> o.index, taskId |-> o.valuation_index + 1]}
    /\ orchestrators' = [orchestrators EXCEPT ![r].valuation_index = @ + 1]
    /\ UNCHANGED <<runVars, hydVars, pureVars, requestGroups, consumer_groups, task_updates, task_results>>

(* _await_group_completion lines 240-252 *)
StartAwait(r) ==
    LET o == orchestrators[r] IN
    /\ o.pc = "dispatch"
    /\ o.valuation_index = requestGroups[r][o.index + 1]
    /\ orchestrators' = [orchestrators EXCEPT ![r].pc = "await", ![r].completed = 0,
                                               ![r].group[o.index] = <<>>]
    /\ UNCHANGED <<runVars, hydVars, pureVars, requestGroups, consumer_groups, task_updates, lambda_queue,
                   task_results>>

(* Lines 272-321 for the entry at stream position k, delivered to the run   *)
(* of request r: s.o is the run's record, s.acks the positions it has        *)
(* acknowledged.  The workers of this specification publish `completed`      *)
(* only, after the result is stored, so the branches of a `failed` entry     *)
(* (lines 311-320) and of a missing result are never entered here.           *)
HandleEntry(r, s, k) ==
    LET m == task_updates[k]
        o == s.o
        ack == s.acks \cup {k}
    IN
    IF m.requestId # r
    THEN [s EXCEPT !.acks = ack]
    ELSE IF m.groupIdx # o.index
    THEN s
    ELSE IF m.taskId \notin 1 .. o.valuation_index
    THEN [s EXCEPT !.acks = ack]
    ELSE IF m.status = "completed"
    THEN [s EXCEPT !.o.completed = @ + 1,
                   !.o.group[o.index] = Append(@, m.taskId),
                   !.o.counted = @ \cup {k},
                   !.acks = ack]
    ELSE [s EXCEPT !.acks = ack]

RECURSIVE HandleEntries(_, _, _)
HandleEntries(r, s, ks) ==
    IF ks = <<>> THEN s
    ELSE HandleEntries(r, HandleEntry(r, s, Head(ks)), Tail(ks))

(* Lines 254-321: xreadgroup '>' with count=expected on the run's consumer   *)
(* group returns the new entries, which are handled in order.                *)
ReadUpdates(r) ==
    LET o == orchestrators[r]
        name == ConsumerGroupName(r)
        cg == consumer_groups[name]
        n == Min(o.valuation_index, Len(task_updates) - cg.last_delivered)
        ks == [i \in 1 .. n |-> cg.last_delivered + i]
        s == HandleEntries(r, [o |-> o, acks |-> {}], ks)
    IN
    /\ o.pc = "await"
    /\ o.completed < o.valuation_index
    /\ n > 0
    /\ consumer_groups' = [consumer_groups EXCEPT ![name] =
          [created |-> TRUE, last_delivered |-> cg.last_delivered + n,
           pending |-> (cg.pending \cup {ks[i] : i \in 1 .. n}) \ s.acks]]
    /\ orchestrators' = [orchestrators EXCEPT ![r] =
          [s.o EXCEPT !.delivered = @ \cup {ks[i] : i \in 1 .. n}]]
    /\ UNCHANGED <<runVars, hydVars, pureVars, requestGroups, task_updates, lambda_queue, task_results>>

(* Lines 330-333 and run() line 110 *)
FinishGroup(r) ==
    LET o == orchestrators[r] IN
    /\ o.pc = "await"
    /\ ~(o.completed < o.valuation_index)
    /\ orchestrators' = [orchestrators EXCEPT ![r].pc = "loop", ![r].index = @ + 1]
    /\ UNCHANGED <<runVars, hydVars, pureVars, requestGroups, consumer_groups, task_updates, lambda_queue,
                   task_results>>

(* run() lines 119-133 *)
Succeed(r) ==
    LET o == orchestrators[r] IN
    /\ o.pc = "loop"
    /\ o.index = Len(requestGroups[r])
    /\ orchestrators' = [orchestrators EXCEPT ![r].pc = "returned",
                                               ![r].status = "succeeded"]
    /\ UNCHANGED <<runVars, hydVars, pureVars, requestGroups, consumer_groups, task_updates, lambda_queue,
                   task_results>>

(* handle_dispatch on a payload of either request: the result is written,    *)
(* then `completed` is published on the shared stream.                       *)
WorkerCompletes ==
    \E p \in lambda_queue :
      /\ lambda_queue' = lambda_queue \ {p}
      /\ task_results' = task_results \cup {<<p.requestId, p.groupIdx, p.taskId>>}
      /\ task_updates' = Append(task_updates,
            UpdateEvent(p.requestId, p.groupIdx, p.taskId, "completed", 1,
                        WorkerUpdateKeys))
      /\ UNCHANGED <<runVars, hydVars, pureVars, requestGroups, orchestrators, consumer_groups>>

NextShared ==
    \/ \E r \in Requests : EnsureGroup(r)
    \/ \E r \in Requests : StartGroup(r)
    \/ \E r \in Requests : DispatchOne(r)
    \/ \E r \in Requests : StartAwait(r)
    \/ \E r \in Requests : ReadUpdates(r)
    \/ \E r \in Requests : FinishGroup(r)
    \/ \E r \in Requests : Succeed(r)
    \/ WorkerCompletes

SpecShared == InitShared /\ [][NextShared]_vars

----------------------------------------------------------------------------
(* The hydration engine (hydration/engine.py) with the strategies of         *)
(* hydration/strategies.py, on element trees.  A node is its set of          *)
(* hydration attributes and its children; "placeholder" stands for an        *)
(* attribute whose value has the form ${select(...)}.  Remote nodes and      *)
(* select sources have no children.                                          *)

MaxAttrs == 2
MaxKids == 1
MaxMatches == 2
MaxChildren == 2

HydrationAttributes == {"href", "use", "select", "placeholder"}

Node(attrs, kids) == [attrs |-> attrs, kids |-> kids]

AttributeSets == {a \in SUBSET HydrationAttributes : Cardinality(a) <= MaxAttrs}

(* Input elements: an element, its children and their children *)
Leaves == {Node(a, <<>>) : a \in AttributeSets}

Children == {Node(a, k) : a \in AttributeSets,
                          k \in UNION {[1 .. n -> Leaves] : n \in 0 .. MaxKids}}

Elements == {Node(a, k) : a \in AttributeSets,
                          k \in UNION {[1 .. n -> Children] : n \in 0 .. MaxKids}}

(* What document_root.xpath(source_xpath) returns for vn:link: per match, a  *)
(* non-element ("text") or the number of its children named child_name.      *)
LinkMatch(is_element, children) == [is_element |-> is_element, children |-> children]

LinkMatches ==
    UNION {[1 .. n -> {LinkMatch(FALSE, 0)} \cup {LinkMatch(TRUE, c) : c \in 0 .. MaxChildren}]
              : n \in 0 .. MaxMatches}

(* context_node = None *)
NoContext == <<0, 0>>

(* The fetch or the lookup of the remote node fails *)
RemoteMissing == Node({"#missing"}, <<>>)

(* The node a context reference stands for *)
ContextNode == Node({}, <<>>)

(* HydrationItem *)
HydrationItem(element, context_node) ==
    [element |-> element, context_node |-> context_node]

(* A strategy returned the items / raised an exception *)
Hydrated(items) == [ok |-> TRUE, items |-> items, exc |-> "none"]

HydrationError == [ok |-> FALSE, items |-> <<>>, exc |-> "HydrationError"]

ValueError == [ok |-> FALSE, items |-> <<>>, exc |-> "ValueError"]

(* The items of two results in order, or the exception raised first *)
Concatenated(first, rest) ==
    IF ~first.ok THEN first
    ELSE IF ~rest.ok THEN rest
    ELSE Hydrated(first.items \o rest.items)

(* _merge_elements with a remote node that has no children: remote           *)
(* attributes overlaid by the local ones, the local children copied.         *)
MergeElements(local, remote, ignore_local_attrs, ignore_remote_attrs) ==
    Node((remote.attrs \ ignore_remote_attrs) \cup (local.attrs \ ignore_local_attrs),
         local.kids)

RECURSIVE HasHrefBelow(_)
HasHrefBelow(n) ==
    \E i \in DOMAIN n.kids : "href" \in n.kids[i].attrs \/ HasHrefBelow(n.kids[i])

(* _hydrate_href_nodes: every node matched by ".//*[@href]", that is every   *)
(* descendant of the element and not the element itself, is replaced by its  *)
(* merge with the remote node, until none is left.                           *)
RECURSIVE HydrateHrefNodes(_)
HydrateHrefNodes(element) ==
    [element EXCEPT !.kids =
        [i \in DOMAIN element.kids |->
            LET child == HydrateHrefNodes(element.kids[i]) IN
            IF "href" \in child.attrs
            THEN MergeElements(child, href_remote, {"href"}, {"href"})
            ELSE child]]

(* HrefHydrationStrategy.apply *)
HrefApply(items) ==
    IF href_remote = RemoteMissing /\ \E i \in DOMAIN items : HasHrefBelow(items[i].element)
    THEN HydrationError
    ELSE Hydrated([i \in DOMAIN items |->
                     HydrationItem(HydrateHrefNodes(items[i].element),
                                   items[i].context_node)])

(* The value of a `use` attribute.  A string is the sequence of its tokens;  *)
(* the inputs are built as [prefix ":"] function ["("] arguments [")"].      *)
UseArguments(n) ==
    IF n = 0 THEN <<>>
    ELSE IF n = 1 THEN <<"src">>
    ELSE IF n = 2 THEN <<"src", ",", "child">>
    ELSE <<"src", ",", "child", ",", "extra">>

UseExpression(prefix, function, open, args, close) ==
    [prefix |-> prefix, function |-> function, open |-> open, args |-> args,
     close |-> close]

(* use="" *)
EmptyUse == UseExpression("none", "", FALSE, 0, FALSE)

(* use="vn:link(src, child)" *)
VnLink == UseExpression("vn", "link", TRUE, 2, TRUE)

UseExpressions ==
    {EmptyUse}
    \cup {UseExpression(p, f, TRUE, n, c) :
            p \in {"vn", "xx", "none"}, f \in {"link", "foo"}, n \in 0 .. 3, c \in BOOLEAN}
    \cup {UseExpression(p, f, FALSE, 0, c) :
            p \in {"vn", "xx", "none"}, f \in {"link", "foo"}, c \in BOOLEAN}

(* The text of the attribute *)
UseText(u) ==
    IF u = EmptyUse THEN <<>>
    ELSE (IF u.prefix = "none" THEN <<>> ELSE <<u.prefix, ":">>)
         \o <<u.function>>
         \o (IF u.open THEN <<"(">> ELSE <<>>)
         \o UseArguments(u.args)
         \o (IF u.close THEN <<")">> ELSE <<>>)

(* str.split(sep, 1): the text before the first sep and the text after it *)
SplitOnce(text, sep) ==
    IF \E i \in DOMAIN text : text[i] = sep
    THEN LET i == CHOOSE i \in DOMAIN text :
                     /\ text[i] = sep
                     /\ \A j \in 1 .. (i - 1) : text[j] # sep
         IN [found |-> TRUE, head |-> SubSeq(text, 1, i - 1),
             tail |-> SubSeq(text, i + 1, Len(text))]
    ELSE [found |-> FALSE, head |-> text, tail |-> <<>>]

(* [part for part in text.split(",") if part.strip()] *)
RECURSIVE NonEmptyParts(_)
NonEmptyParts(text) ==
    IF text = <<>> THEN <<>>
    ELSE IF \A i \in DOMAIN text : text[i] # "," THEN <<text>>
    ELSE IF Head(text) = "," THEN NonEmptyParts(Tail(text))
    ELSE <<SplitOnce(text, ",").head>> \o NonEmptyParts(SplitOnce(text, ",").tail)

(* _strip_namespace: value.split(":", 1), ValueError turned into             *)
(* HydrationError                                                            *)
StripNamespace(value) ==
    IF \A i \in DOMAIN value : value[i] # ":"
    THEN [exc |-> "HydrationError", prefix |-> <<>>, func |-> <<>>]
    ELSE [exc |-> "none", prefix |-> SplitOnce(value, ":").head,
          func |-> SplitOnce(value, ":").tail]

(* _parse_use_expression lines 341-348, for expr[:-1].split("(", 1) = split  *)
ParseSplit(split) ==
    IF ~split.found THEN [exc |-> "ValueError", func |-> <<>>]
    ELSE IF StripNamespace(split.head).exc # "none"
    THEN [exc |-> "HydrationError", func |-> <<>>]
    ELSE IF Len(NonEmptyParts(split.tail)) # 2
    THEN [exc |-> "HydrationError", func |-> <<>>]
    ELSE [exc |-> "none", func |-> StripNamespace(split.head).func]

(* _parse_use_expression: the function name, or the exception raised *)
ParseUseExpression(expr) ==
    IF expr = <<>> \/ expr[Len(expr)] # ")"
    THEN [exc |-> "HydrationError", func |-> <<>>]
    ELSE ParseSplit(SplitOnce(SubSeq(expr, 1, Len(expr) - 1), "("))

(* _execute_link, from match m on: for every element match, one clone of the *)
(* element without `use` per child named child_name, bound to that child.    *)
RECURSIVE ExecuteLink(_, _)
ExecuteLink(item, m) ==
    IF m > Len(link_matches) THEN <<>>
    ELSE (IF ~link_matches[m].is_element THEN <<>>
          ELSE [c \in 1 .. link_matches[m].children |->
                  HydrationItem([item.element EXCEPT !.attrs = @ \ {"use"}], <<m, c>>)])
         \o ExecuteLink(item, m + 1)

(* _expand_use lines 321-335, for the namespace and the parsed expression *)
ExpandParsed(item, ns, parsed) ==
    IF ns.exc # "none" THEN HydrationError
    ELSE IF ns.prefix # <<"vn">> THEN HydrationError
    ELSE IF parsed.exc = "ValueError" THEN ValueError
    ELSE IF parsed.exc # "none" THEN HydrationError
    ELSE IF parsed.func # <<"link">> THEN HydrationError
    ELSE IF link_matches = <<>> THEN HydrationError
    ELSE Hydrated(ExecuteLink(item, 1))

(* _expand_use: the clones, or the exception raised *)
ExpandUse(item) ==
    ExpandParsed(item, StripNamespace(SplitOnce(UseText(use_attr), "(").head),
                 ParseUseExpression(UseText(use_attr)))

(* apply lines 306-309: no clone raises *)
NoCloneRaises(clones) ==
    IF clones.ok /\ clones.items = <<>> THEN HydrationError ELSE clones

(* UseFunctionHydrationStrategy.apply, from item i on: an item whose own     *)
(* element has a non-empty `use` is replaced by its clones (which have no    *)
(* `use` and pass through); no clone raises.                                 *)
RECURSIVE UseApplyFrom(_, _)
UseApplyFrom(items, i) ==
    IF i > Len(items) THEN Hydrated(<<>>)
    ELSE Concatenated(
             IF "use" \notin items[i].element.attrs \/ UseText(use_attr) = <<>>
             THEN Hydrated(<<items[i]>>)
             ELSE NoCloneRaises(ExpandUse(items[i])),
             UseApplyFrom(items, i + 1))

UseApply(items) == UseApplyFrom(items, 1)

(* The strategies of the engine, in order (engine.py lines 45-50) *)
Strategies == <<"href", "use", "select", "href">>

(* A select attribute: its expression, what the XPath of the expression      *)
(* matches (in the document root or below the context node), and the node    *)
(* matched when exactly one element is.                                      *)
SelectSource(expr, matches, node) == [expr |-> expr, matches |-> matches, node |-> node]

SelectExpressions ==
    [absolute |-> <<"/", "path">>, context |-> <<".">>, relative |-> <<".", "/", "path">>,
     other |-> <<"path">>, empty |-> <<>>]

SelectMatches == {<<>>, <<"text">>, <<"element">>, <<"element", "element">>}

SelectSources ==
    {SelectSource(SelectExpressions.absolute, <<"element">>, Node(a, <<>>)) :
        a \in {{}, {"href"}, {"use"}}}
    \cup {SelectSource(SelectExpressions.absolute, m, Node({}, <<>>)) :
        m \in SelectMatches \ {<<"element">>}}
    \cup {SelectSource(SelectExpressions.relative, m, Node({}, <<>>)) :
        m \in SelectMatches \ {<<"text">>}}
    \cup {SelectSource(SelectExpressions.relative, <<"element">>, Node({"href"}, <<>>))}
    \cup {SelectSource(SelectExpressions[k], <<>>, Node({}, <<>>)) :
        k \in {"context", "other", "empty"}}

(* _validate_match that takes the first element whatever their number *)
ValidateMatch_First(matches, node) ==
    [exc |-> "none", node |-> node]

(* _validate_match: exactly one of the matches is an element *)
ValidateMatch(matches, node) ==
    IF Len(SelectSeq(matches, LAMBDA m : m = "element")) # 1
    THEN [exc |-> "HydrationError", node |-> node]
    ELSE [exc |-> "none", node |-> node]

(* SelectHydrationStrategy.apply lines 490-494 and _resolve_reference: the   *)
(* node the select attribute refers to, or the exception raised              *)
ResolveReference(context_node) ==
    LET select_expr == select_source.expr IN
    IF select_expr = <<>> THEN [exc |-> "HydrationError", node |-> ContextNode]
    ELSE IF Head(select_expr) = "/"
    THEN ValidateMatch(select_source.matches, select_source.node)
    ELSE IF Head(select_expr) # "." THEN [exc |-> "HydrationError", node |-> ContextNode]
    ELSE IF context_node = NoContext THEN [exc |-> "HydrationError", node |-> ContextNode]
    ELSE IF select_expr = <<".">> THEN [exc |-> "none", node |-> ContextNode]
    ELSE ValidateMatch(select_source.matches, select_source.node)

(* The result of a sweep: the new children / the exception raised *)
Swept(kids) == [ok |-> TRUE, kids |-> kids, exc |-> "none"]

SweepRaised(exc) == [ok |-> FALSE, kids |-> <<>>, exc |-> exc]

(* The children of two sweeps in order, or the exception raised first *)
SweptBoth(here, rest) ==
    IF ~here.ok THEN here
    ELSE IF ~rest.ok THEN rest
    ELSE Swept(here.kids \o rest.kids)

(* apply lines 514-531: the items the engine returned for the merged node    *)
(* replace the node, each with `select` removed from its own element         *)
Replacements(hydrated_replacements) ==
    IF ~hydrated_replacements.ok THEN SweepRaised(hydrated_replacements.exc)
    ELSE IF hydrated_replacements.items = <<>> THEN SweepRaised("HydrationError")
    ELSE Swept([j \in DOMAIN hydrated_replacements.items |->
                  [hydrated_replacements.items[j].element
                      EXCEPT !.attrs = @ \ {"select"}]])

(* The node with its children replaced by their sweep *)
WithKids(node, below) ==
    IF ~below.ok THEN below ELSE Swept(<<[node EXCEPT !.kids = below.kids]>>)

RECURSIVE HydrateElement(_, _)
RECURSIVE SelectNodes(_, _, _, _)

(* apply lines 490-531 for one node with `select`: the node is merged with   *)
(* the referenced node and the engine hydrates the merged node               *)
SelectNode(node, context_node, replacement_source) ==
    IF replacement_source.exc # "none" THEN SweepRaised(replacement_source.exc)
    ELSE Replacements(
             HydrateElement(MergeElements(node, replacement_source.node, {"select"}, {}),
                            context_node))

(* One sweep of SelectHydrationStrategy.apply over the children of `parent`  *)
(* from the i-th on: a child with `select` and no ancestor with `use` is     *)
(* replaced, the others are swept in turn.                                   *)
SelectNodes(parent, context_node, under_use, i) ==
    IF i > Len(parent.kids) THEN Swept(<<>>)
    ELSE SweptBoth(
             IF "select" \in parent.kids[i].attrs /\ ~under_use
             THEN SelectNode(parent.kids[i], context_node, ResolveReference(context_node))
             ELSE WithKids(parent.kids[i],
                           SelectNodes(parent.kids[i], context_node,
                                       under_use \/ "use" \in parent.kids[i].attrs, 1)),
             SelectNodes(parent, context_node, under_use, i + 1))

(* A node matched by ".//*[@select]" that has no ancestor with `use` *)
RECURSIVE HasSelectNodes(_, _)
HasSelectNodes(parent, under_use) ==
    \E i \in DOMAIN parent.kids :
        \/ "select" \in parent.kids[i].attrs /\ ~under_use
        \/ HasSelectNodes(parent.kids[i], under_use \/ "use" \in parent.kids[i].attrs)

RECURSIVE SelectUntilNone(_, _)

(* The next round of the `while True` loop after a sweep *)
SelectAgain(element, context_node, swept) ==
    IF ~swept.ok THEN [ok |-> FALSE, items |-> <<>>, exc |-> swept.exc]
    ELSE SelectUntilNone([element EXCEPT !.kids = swept.kids], context_node)

(* The `while True` loop of SelectHydrationStrategy.apply for one item:      *)
(* sweeps until no such node is left.                                        *)
SelectUntilNone(element, context_node) ==
    IF ~HasSelectNodes(element, "use" \in element.attrs)
    THEN Hydrated(<<HydrationItem(element, context_node)>>)
    ELSE SelectAgain(element, context_node,
                     SelectNodes(element, context_node, "use" \in element.attrs, 1))

(* SelectHydrationStrategy.apply, from item i on *)
RECURSIVE SelectApplyFrom(_, _)
SelectApplyFrom(items, i) ==
    IF i > Len(items) THEN Hydrated(<<>>)
    ELSE Concatenated(SelectUntilNone(items[i].element, items[i].context_node),
                      SelectApplyFrom(items, i + 1))

SelectApply(items) == SelectApplyFrom(items, 1)

(* strategy.apply(hydrated_items, document_root, self) *)
ApplyStrategy(strategy, hydrated_items) ==
    IF ~hydrated_items.ok THEN hydrated_items
    ELSE IF strategy = "href" THEN HrefApply(hydrated_items.items)
    ELSE IF strategy = "use" THEN UseApply(hydrated_items.items)
    ELSE SelectApply(hydrated_items.items)

(* hydrate_element: the element is deep-copied into one item, which is       *)
(* threaded through the strategies in order.                                 *)
HydrateElement(element, context_node) ==
    LET RECURSIVE Thread(_, _)
        Thread(hydrated_items, k) ==
            IF k > Len(Strategies) THEN hydrated_items
            ELSE Thread(ApplyStrategy(Strategies[k], hydrated_items), k + 1)
    IN Thread(Hydrated(<<HydrationItem(element, context_node)>>), 1)

(* The variables of the two-orchestrator specification and of the run while  *)
(* the engine alone is explored                                              *)
InitHydrate ==
    /\ RunIdle
    /\ SharedIdle
    /\ PureIdle
    /\ h_element \in Elements
    /\ link_matches \in {m \in LinkMatches : Len(m) <= 1}
    /\ href_remote \in {Node({}, <<>>), Node({"select"}, <<>>), RemoteMissing}
    /\ select_source \in SelectSources
    /\ use_attr = VnLink
    /\ h_items = <<>>
    /\ h_pass = 0

(* hydrate_element lines 54-71: the initial item *)
HydrateCall ==
    /\ h_pass = 0
    /\ h_items' = Hydrated(<<HydrationItem(h_element, NoContext)>>)
    /\ h_pass' = 1
    /\ UNCHANGED <<runVars, sharedVars, pureVars, h_element, link_matches, href_remote,
                   select_source, use_attr>>

(* _apply_strategies lines 78-80, one iteration *)
ApplyNextStrategy ==
    /\ h_pass \in 1 .. Len(Strategies)
    /\ h_items.ok
    /\ h_items' = ApplyStrategy(Strategies[h_pass], h_items)
    /\ h_pass' = h_pass + 1
    /\ UNCHANGED <<runVars, sharedVars, pureVars, h_element, link_matches, href_remote,
                   select_source, use_attr>>

NextHydrate ==
    \/ HydrateCall
    \/ ApplyNextStrategy

SpecHydrate == InitHydrate /\ [][NextHydrate]_vars

----------------------------------------------------------------------------
(* run() on a request with one group whose single valuation carries          *)
(* use="vn:link(src, child)": _dispatch_group computes the valuations with   *)
(* the hydration engine.                                                     *)

(* The valuation element of the request: `use`, and possibly a child that    *)
(* selects from the context node                                             *)
LinkValuations == {Node({"use"}, <<>>), Node({"use"}, <<Node({"select"}, <<>>)>>)}

(* k: the context nodes vn:link matches, that is the children named `child`  *)
(* of the elements the source XPath matches                                  *)
RECURSIVE MatchedContextNodes(_)
MatchedContextNodes(m) ==
    IF m = 0 THEN 0
    ELSE MatchedContextNodes(m - 1)
         + (IF link_matches[m].is_element THEN link_matches[m].children ELSE 0)

InitLink ==
    /\ InitRun
    /\ groupSizes = <<1>>
    /\ task_invoker = "invoker"
    /\ SharedIdle
    /\ PureIdle
    /\ h_element \in LinkValuations
    /\ link_matches \in LinkMatches
    /\ MatchedContextNodes(Len(link_matches)) <= MaxTasks
    /\ href_remote = Node({}, <<>>)
    /\ select_source = SelectSource(SelectExpressions.context, <<>>, Node({}, <<>>))
    /\ use_attr = VnLink
    /\ h_items = <<>>
    /\ h_pass = 0

(* _dispatch_group lines 144-150: hydrate each valuation of the group, from  *)
(* the i-th on, and collect the hydrated valuations.                         *)
RECURSIVE HydrateValuations(_, _)
HydrateValuations(group, i) ==
    IF i > Len(group.kids) THEN Hydrated(<<>>)
    ELSE Concatenated(HydrateElement(group.kids[i], NoContext),
                      HydrateValuations(group, i + 1))

(* run() lines 105-108 and _dispatch_group lines 138-159, with the engine:   *)
(* the group is hydrated, then each of its valuations; expected is the       *)
(* number of hydrated valuations.                                            *)
BeginGroupLink ==
    /\ pc = "loop"
    /\ index < GroupCount
    /\ LET rs == [requestState EXCEPT !.status = "running"]
           lc == PublishLifecycle(lifecycle, "group_started", index)
           hydrated_groups == HydrateElement(Node({}, <<h_element>>), NoContext)
           valuations == IF hydrated_groups.ok
                         THEN HydrateValuations(hydrated_groups.items[1].element, 1)
                         ELSE hydrated_groups
       IN IF ~valuations.ok
          THEN /\ RaiseInGroupLoop("hydrate_group", valuations.exc,
                      [failureBlob |-> failureBlob, requestState |-> rs, lifecycle |-> lc])
               /\ UNCHANGED <<groupState, valuation_index, groupSizes, h_items>>
          ELSE /\ requestState' = rs
               /\ lifecycle' = lc
               /\ h_items' = valuations
               /\ groupSizes' = [groupSizes EXCEPT ![index + 1] = Len(valuations.items)]
               /\ groupState' = [groupState EXCEPT ![index] =
                      InitialGroupState(Len(valuations.items))]
               /\ valuation_index' = 0
               /\ pc' = "dispatch"
               /\ UNCHANGED <<fault, error, failureBlob>>
    /\ UNCHANGED <<sharedVars, pureVars, ioVars, h_element, link_matches, href_remote, select_source,
                   use_attr,
                   h_pass, task_invoker, index, completed, pending_failures,
                   deadlinePassed, response, payloads, results, assembled, updates,
                   cursor, pel, inflight, invoked, handled, workerLog, foreignCount>>

NextLink ==
    \/ LoadRequest
    \/ StartRequest
    \/ BeginGroupLink
    \/ DispatchTask
    \/ AwaitStart
    \/ AwaitPoll
    \/ AwaitRead
    \/ CompleteGroup
    \/ TimeOut
    \/ DeadlinePasses
    \/ WriteResponse
    \/ MarkSucceeded
    \/ PublishCompleted
    \/ WorkerHandle
    \/ ForeignPublish

SpecLink == InitLink /\ [][NextLink]_vars

----------------------------------------------------------------------------
(* _dispatch_group lines 180-210: the task ids and the cache keys of the     *)
(* descriptors.  A string is the sequence of its characters; the literal     *)
(* parts of a key are single tokens.                                         *)

MaxKeyGroups == 11
MaxKeyTasks == 11

DecimalDigits == <<"0", "1", "2", "3", "4", "5", "6", "7", "8", "9">>

(* str(n) for n >= 0 *)
RECURSIVE str(_)
str(n) ==
    IF n < 10 THEN <<DecimalDigits[n + 1]>>
    ELSE str(n \div 10) \o <<DecimalDigits[(n % 10) + 1]>>

(* TaskId that gives every task of a group the id "1" *)
TaskId_AlwaysOne(valuation_index_) == str(1)

(* Line 186: task_id = str(valuation_index) *)
TaskId(valuation_index_) == str(valuation_index_)

(* TASK_XML_KEY_TEMPLATE.format(...): task:{requestId}:{groupIndex}:{i}:payload *)
TASK_XML_KEY_TEMPLATE(request_id, group_index, task_id) ==
    <<"task", ":", request_id, ":">> \o str(group_index) \o <<":">> \o task_id
        \o <<":", "payload">>

(* TASK_RESULT_KEY_TEMPLATE.format(...): task:{requestId}:{groupIndex}:{i}:result *)
TASK_RESULT_KEY_TEMPLATE(request_id, group_index, task_id) ==
    <<"task", ":", request_id, ":">> \o str(group_index) \o <<":">> \o task_id
        \o <<":", "result">>

(* TaskDescriptor *)
TaskDescriptor(request_id, group_index, task_id, xml_key, result_key) ==
    [request_id |-> request_id, group_index |-> group_index, task_id |-> task_id,
     xml_key |-> xml_key, result_key |-> result_key]

InitKeys ==
    /\ UseIdle
    /\ MergeIdle
    /\ TreesIdle
    /\ StrategyIdle
    /\ RunIdle
    /\ SharedIdle
    /\ HydrationIdle
    /\ k_groups \in 1 .. MaxKeyGroups
    /\ k_valuations \in 1 .. MaxKeyTasks
    /\ k_group_index = 0
    /\ k_valuation_index = 0
    /\ descriptors = <<>>

(* _dispatch_group lines 184-208, one iteration of `for valuation in         *)
(* valuations`                                                               *)
DispatchDescriptor ==
    /\ k_group_index < k_groups
    /\ k_valuation_index < k_valuations
    /\ LET valuation_index_ == k_valuation_index + 1
           task_id == TaskId(valuation_index_)
           xml_key == TASK_XML_KEY_TEMPLATE(THIS_REQUEST, k_group_index, task_id)
           result_key == TASK_RESULT_KEY_TEMPLATE(THIS_REQUEST, k_group_index, task_id)
       IN /\ k_valuation_index' = valuation_index_
          /\ descriptors' = Append(descriptors,
                TaskDescriptor(THIS_REQUEST, k_group_index, task_id, xml_key, result_key))
    /\ UNCHANGED <<runVars, sharedVars, hydVars, useVars, mergeVars, treeVars, strategyVars, k_groups, k_valuations,
                   k_group_index>>

(* run() line 105: the next group of `for index, group in enumerate(groups)` *)
DispatchNextGroup ==
    /\ k_valuation_index = k_valuations
    /\ k_group_index < k_groups
    /\ k_group_index' = k_group_index + 1
    /\ k_valuation_index' = 0
    /\ UNCHANGED <<runVars, sharedVars, hydVars, useVars, mergeVars, treeVars, strategyVars, k_groups, k_valuations,
                   descriptors>>

NextKeys ==
    \/ DispatchDescriptor
    \/ DispatchNextGroup

SpecKeys == InitKeys /\ [][NextKeys]_vars

-----------------------------------------------------------------------------
(* UseFunctionHydrationStrategy.apply on its own: one call with one or two   *)
(* items, any value of the `use` attribute and any result of the source      *)
(* XPath.                                                                    *)

MaxUseItems == 2

UseElements ==
    {Node({}, <<>>), Node({"use"}, <<>>), Node({"select"}, <<Node({"use"}, <<>>)>>)}

InitUse ==
    /\ RunIdle
    /\ SharedIdle
    /\ KeysIdle
    /\ MergeIdle
    /\ TreesIdle
    /\ StrategyIdle
    /\ h_element = <<>>
    /\ href_remote = <<>>
    /\ select_source = <<>>
    /\ h_items = <<>>
    /\ h_pass = 0
    /\ link_matches \in LinkMatches
    /\ use_attr \in UseExpressions
    /\ u_items \in UNION {[1 .. n -> {HydrationItem(e, NoContext) : e \in UseElements}]
                             : n \in 1 .. MaxUseItems}
    /\ u_result = <<>>
    /\ u_pc = "call"

(* strategy.apply(items, document_root, engine) *)
UseFunctionApply ==
    /\ u_pc = "call"
    /\ u_result' = UseApply(u_items)
    /\ u_pc' = "returned"
    /\ UNCHANGED <<runVars, sharedVars, hydVars, keyVars, mergeVars, treeVars, strategyVars, u_items>>

NextUse == UseFunctionApply

SpecUse == InitUse /\ [][NextUse]_vars

-----------------------------------------------------------------------------
(* _merge_elements on the attributes, the text and the tail of one local     *)
(* node and its resolved remote node, as HrefHydrationStrategy and           *)
(* SelectHydrationStrategy call it.                                          *)

MergeAttributeNames == {"href", "select", "name", "date"}

(* element.text and element.tail: None, empty, blank or a text *)
Texts(value) == {"None", "", " ", value}

(* An element with every attribute set to `value` *)
MergeNodes(value, texts, tails) ==
    {[attrib |-> a, text |-> t, tail |-> l] :
        a \in UNION {[names -> {value}] : names \in SUBSET MergeAttributeNames},
        t \in texts, l \in tails}

(* bool(text) *)
Truthy(text) == text \notin {"None", ""}

(* text.strip() *)
Strip(text) == IF text = " " THEN "" ELSE text

(* _merge_elements lines 78-81 *)
MergedText(local, remote) ==
    IF "select" \in DOMAIN local.attrib /\ remote.text # "None"
    THEN remote.text
    ELSE IF Truthy(local.text) /\ Truthy(Strip(local.text)) THEN local.text
    ELSE remote.text

(* _merge_elements lines 68-76: the remote attributes are set, then the      *)
(* local ones                                                                *)
MergedAttrib(local, remote, ignore_local_attrs, ignore_remote_attrs) ==
    [key \in (DOMAIN remote.attrib \ ignore_remote_attrs)
               \cup (DOMAIN local.attrib \ ignore_local_attrs) |->
        IF key \in DOMAIN local.attrib \ ignore_local_attrs
        THEN local.attrib[key] ELSE remote.attrib[key]]

(* _merge_elements lines 66-82 *)
MergedElement(local, remote, ignore_local_attrs, ignore_remote_attrs) ==
    [attrib |-> MergedAttrib(local, remote, ignore_local_attrs, ignore_remote_attrs),
     text |-> MergedText(local, remote),
     tail |-> local.tail]

(* attrib.pop(key, None) *)
AttribPop(element, key) ==
    [element EXCEPT !.attrib = [k \in DOMAIN @ \ {key} |-> @[k]]]

InitMerge ==
    /\ RunIdle
    /\ SharedIdle
    /\ HydrationIdle
    /\ KeysIdle
    /\ UseIdle
    /\ TreesIdle
    /\ StrategyIdle
    /\ m_local \in {n \in MergeNodes("local", Texts("local"), {"None", "local"}) :
                       DOMAIN n.attrib \cap {"href", "select"} # {}}
    /\ m_remote \in MergeNodes("remote", Texts("remote"), {"None", "remote"})
    /\ m_merged = <<>>
    /\ m_kind = "call"

(* HrefHydrationStrategy._hydrate_single_node lines 196-203 *)
MergeHref ==
    /\ m_kind = "call"
    /\ "href" \in DOMAIN m_local.attrib
    /\ m_merged' = [MergedElement(m_local, m_remote, {"href"}, {"href"})
                        EXCEPT !.tail = m_local.tail]
    /\ m_kind' = "href"
    /\ UNCHANGED <<runVars, sharedVars, hydVars, keyVars, useVars, treeVars, strategyVars, m_local, m_remote>>

(* SelectHydrationStrategy.apply lines 508-531 for a merged node that the    *)
(* engine returns as it is: the merge, then select popped and the tail of    *)
(* the local node set                                                        *)
MergeSelect ==
    /\ m_kind = "call"
    /\ "select" \in DOMAIN m_local.attrib
    /\ m_merged' = [AttribPop(MergedElement(m_local, m_remote, {"select"}, {}), "select")
                        EXCEPT !.tail = m_local.tail]
    /\ m_kind' = "select"
    /\ UNCHANGED <<runVars, sharedVars, hydVars, keyVars, useVars, treeVars, strategyVars, m_local, m_remote>>

NextMerge ==
    \/ MergeHref
    \/ MergeSelect

SpecMerge == InitMerge /\ [][NextMerge]_vars

-----------------------------------------------------------------------------
(* hydrate_element on the trees of lxml: which tree every element the engine *)
(* and the strategies handle belongs to, which trees they create and which   *)
(* they write to.  The trees that exist before the call are the input        *)
(* element, the document root (with the context nodes and the nodes select   *)
(* refers to) and the remote document; the others are created by the call.   *)

InputElement == <<"input", 0>>

DocumentRoot == <<"document_root", 0>>

RemoteDocument == <<"remote", 0>>

GivenTrees == {InputElement, DocumentRoot, RemoteDocument}

CreatedTree(n) == <<"created", n>>

Shapes == [href : BOOLEAN, use : BOOLEAN, select : BOOLEAN]

(* copy.deepcopy(element) that returns the element itself *)
DeepCopy_SameObject(heap, tree) == [heap |-> heap, tree |-> tree]

(* copy.deepcopy(element), etree.Element(...): a new tree; the copied tree   *)
(* is only read                                                              *)
DeepCopy(heap, tree) ==
    [heap |-> [heap EXCEPT !.count = @ + 1], tree |-> CreatedTree(heap.count + 1)]

(* A write to a node of the tree: attrib.pop, set, text, tail, remove *)
Written(heap, tree) == [heap EXCEPT !.written = @ \cup {tree}]

(* parent.insert(index, node), merged[:] = children: the node leaves the     *)
(* tree it was in and becomes a node of the parent's tree                    *)
Inserted(heap, parent_tree, node_tree) ==
    [heap EXCEPT !.written = @ \cup {parent_tree, node_tree}]

TreeItem(element, context_node, shape) ==
    [element |-> element, context_node |-> context_node, shape |-> shape]

(* _merge_elements(local, remote): a new element, with a deep copy of a      *)
(* local child and of a remote child as its children                         *)
MergedTree(heap, local_tree, remote_tree) ==
    LET merged == DeepCopy(heap, remote_tree)
        local_child == DeepCopy(merged.heap, local_tree)
        remote_child == DeepCopy(local_child.heap, remote_tree)
    IN [heap |-> Inserted(Inserted(remote_child.heap, merged.tree, local_child.tree),
                          merged.tree, remote_child.tree),
        tree |-> merged.tree]

(* HrefHydrationStrategy._hydrate_href_nodes for one item: the node with     *)
(* href is removed from its parent and the merged node inserted              *)
HrefOnTree(heap, item) ==
    IF ~item.shape.href THEN [heap |-> heap, items |-> <<item>>]
    ELSE LET merged == MergedTree(heap, item.element, RemoteDocument) IN
         [heap |-> Inserted(Written(merged.heap, item.element), item.element, merged.tree),
          items |-> <<[item EXCEPT !.shape.href = FALSE]>>]

(* _execute_link for one item, children c .. a_children: a deep copy of the  *)
(* element per child, `use` popped from the copy, the child as context node  *)
RECURSIVE LinkOnTree(_, _, _)
LinkOnTree(heap, item, c) ==
    IF c > a_children THEN [heap |-> heap, items |-> <<>>]
    ELSE LET clone == DeepCopy(heap, item.element)
             rest == LinkOnTree(Written(clone.heap, clone.tree), item, c + 1)
         IN [heap |-> rest.heap,
             items |-> <<TreeItem(clone.tree, DocumentRoot,
                                  [item.shape EXCEPT !.use = FALSE])>> \o rest.items]

(* UseFunctionHydrationStrategy.apply for one item *)
UseOnTree(heap, item) ==
    IF ~item.shape.use THEN [heap |-> heap, items |-> <<item>>]
    ELSE LinkOnTree(heap, item, 1)

RECURSIVE HydrateTree(_, _, _, _)
RECURSIVE ApplyOnTrees(_, _, _, _)

(* The replacements of SelectHydrationStrategy.apply lines 523-531, from the *)
(* j-th on: select popped, the tail set, the replacement inserted            *)
RECURSIVE ReplacementsInserted(_, _, _, _)
ReplacementsInserted(heap, item, replacements, j) ==
    IF j > Len(replacements) THEN heap
    ELSE ReplacementsInserted(
             Inserted(Written(heap, replacements[j].element), item.element,
                      replacements[j].element),
             item, replacements, j + 1)

(* SelectHydrationStrategy.apply for one item: the referenced node is a node *)
(* of the document root; the merged node is hydrated by the engine and the   *)
(* items it returns replace the node with select                             *)
SelectOnTree(heap, item) ==
    IF ~item.shape.select \/ item.shape.use THEN [heap |-> heap, items |-> <<item>>]
    ELSE LET merged == MergedTree(heap, item.element, DocumentRoot)
             hydrated_replacements ==
                 HydrateTree(Written(merged.heap, item.element), merged.tree,
                             item.context_node,
                             [href |-> FALSE, use |-> a_source.use, select |-> FALSE])
         IN [heap |-> ReplacementsInserted(hydrated_replacements.heap, item,
                                           hydrated_replacements.items, 1),
             items |-> <<[item EXCEPT !.shape.select = FALSE,
                                      !.shape.href = a_source.href]>>]

StrategyOnTree(strategy, heap, item) ==
    IF strategy = "href" THEN HrefOnTree(heap, item)
    ELSE IF strategy = "use" THEN UseOnTree(heap, item)
    ELSE SelectOnTree(heap, item)

(* strategy.apply(items, ...) from item i on *)
ApplyOnTrees(strategy, heap, items, i) ==
    IF i > Len(items) THEN [heap |-> heap, items |-> <<>>]
    ELSE LET first == StrategyOnTree(strategy, heap, items[i])
             rest == ApplyOnTrees(strategy, first.heap, items, i + 1)
         IN [heap |-> rest.heap, items |-> first.items \o rest.items]

(* hydrate_element lines 69-70 *)
InitialItem(heap, element, context_node, shape) ==
    LET copy == DeepCopy(heap, element) IN
    [heap |-> copy.heap, items |-> <<TreeItem(copy.tree, context_node, shape)>>]

(* _apply_strategies from strategy p on *)
RECURSIVE StrategiesOnTrees(_, _)
StrategiesOnTrees(hydrated, p) ==
    IF p > Len(Strategies) THEN hydrated
    ELSE StrategiesOnTrees(ApplyOnTrees(Strategies[p], hydrated.heap, hydrated.items, 1),
                           p + 1)

(* hydrate_element *)
HydrateTree(heap, element, context_node, shape) ==
    StrategiesOnTrees(InitialItem(heap, element, context_node, shape), 1)

InitTrees ==
    /\ RunIdle
    /\ SharedIdle
    /\ HydrationIdle
    /\ KeysIdle
    /\ UseIdle
    /\ MergeIdle
    /\ StrategyIdle
    /\ a_shape \in Shapes
    /\ a_source \in [href : BOOLEAN, use : BOOLEAN]
    /\ a_children \in 1 .. MaxChildren
    /\ a_heap = [count |-> 0, written |-> {}]
    /\ a_items = <<>>
    /\ a_pass = 0

(* hydrate_element lines 66-70: the initial item *)
HydrateCallOnTree ==
    /\ a_pass = 0
    /\ LET initial == InitialItem(a_heap, InputElement, NoContext, a_shape) IN
         /\ a_heap' = initial.heap
         /\ a_items' = initial.items
    /\ a_pass' = 1
    /\ UNCHANGED <<runVars, sharedVars, hydVars, keyVars, useVars, mergeVars, strategyVars, a_shape,
                   a_source, a_children>>

(* _apply_strategies lines 78-80, one iteration *)
ApplyNextOnTrees ==
    /\ a_pass \in 1 .. Len(Strategies)
    /\ LET hydrated == ApplyOnTrees(Strategies[a_pass], a_heap, a_items, 1) IN
         /\ a_heap' = hydrated.heap
         /\ a_items' = hydrated.items
    /\ a_pass' = a_pass + 1
    /\ UNCHANGED <<runVars, sharedVars, hydVars, keyVars, useVars, mergeVars, strategyVars, a_shape,
                   a_source, a_children>>

(* The caller mutates a returned element *)
MutateReturned ==
    /\ a_pass = Len(Strategies) + 1
    /\ \E i \in DOMAIN a_items : a_heap' = Written(a_heap, a_items[i].element)
    /\ a_pass' = a_pass + 1
    /\ UNCHANGED <<runVars, sharedVars, hydVars, keyVars, useVars, mergeVars, strategyVars, a_shape,
                   a_source, a_children, a_items>>

NextTrees ==
    \/ HydrateCallOnTree
    \/ ApplyNextOnTrees
    \/ MutateReturned

SpecTrees == InitTrees /\ [][NextTrees]_vars

----------------------------------------------------------------------------
(* Properties *)

Range(seq) == {seq[i] : i \in 1 .. Len(seq)}

NoDuplicates(seq) == \A i, j \in 1 .. Len(seq) : seq[i] = seq[j] => i = j

Terminated == pc \in {"returned", "raised"}

LifecycleStatuses == {lifecycle[i].status : i \in 1 .. Len(lifecycle)}

(* C1: whenever a payload of group i+1 has been handed to the task invoker,  *)
(* the group-state hash of every earlier group has status=completed: groups  *)
(* are dispatched strictly in document order.                                *)
C1_GroupOrder ==
    \A p \in invoked :
        \A j \in GroupIndices :
            j < p.groupIdx => groupState[j].status = "completed"

C1_Witness ==
    \E p \in invoked : p.groupIdx = 1 /\ Expected(0) > 0

(* C2: a (requestId, groupIndex, taskId) contributes at most one result      *)
(* valuation to the assembled group element and is counted at most once in   *)
(* the completed counter, whatever updates are delivered.                    *)
C2_AtMostOnce ==
    \A g \in GroupIndices :
        /\ NoDuplicates(assembled[g])
        /\ groupState[g].completed <= Cardinality(Range(assembled[g]))


(* The worker evaluations that failed, all below the retry limit *)
FailuresBelowLimit ==
    \A w \in workerLog : w[2] = "failed" => w[1].attempt < MAX_TASK_RETRIES

(* C3: when the only disturbances of a run are evaluations that fail below   *)
(* MAX_TASK_RETRIES, every failed task is completed by a later attempt of    *)
(* the worker, so that the run can end succeeded: once the worker has        *)
(* handled every payload it was handed and every update has been delivered,  *)
(* all expected tasks of the awaited group are completed.                    *)
C3_RetryThenSucceed ==
    ( /\ pc \in {"await", "read"}
      /\ foreignCount = 0
      /\ FailuresBelowLimit
      /\ inflight = {}
      /\ cursor = Len(updates)
      /\ pel = {} )
    => /\ completed = valuation_index
       /\ Range(assembled[index]) = 1 .. valuation_index
       /\ NoDuplicates(assembled[index])

(* C4: every payload handed to the task invoker, initial dispatch or retry,  *)
(* holds all fields of the worker contract.                                  *)
C4_PayloadComplete ==
    \A p \in invoked : DispatchKeys \subseteq p.keys

(* C5: a failed update of a known task of the current group is re-invoked    *)
(* with attempt+1 exactly when its attempt is below MAX_TASK_RETRIES, and    *)
(* otherwise joins the pending failures without re-invocation; no payload    *)
(* is ever invoked with an attempt above MAX_TASK_RETRIES.                   *)
C5_RetryPolicy ==
    /\ \A p \in invoked : p.attempt <= MAX_TASK_RETRIES
    /\ \A h \in handled :
         LET m == updates[h[1]] IN
         h[2] \in {"retry", "retry_raised", "exhausted"} =>
            /\ m.status = "failed"
            /\ IF m.attempt < MAX_TASK_RETRIES
               THEN /\ h[2] # "exhausted"
                    /\ h[1] \notin Range(pending_failures)
                    /\ task_invoker # "None" =>
                          RetryPayload(m, m.attempt + 1) \in invoked
               ELSE /\ h[2] = "exhausted"
                    /\ h[1] \in Range(pending_failures)
                    /\ \A p \in invoked :
                          (p.groupIdx = m.groupIdx /\ p.taskId = m.taskId)
                             => p.attempt <= m.attempt

C5_Witness ==
    /\ \E h \in handled : h[2] = "retry" /\ updates[h[1]].attempt = MAX_TASK_RETRIES - 1
    /\ \E h \in handled : h[2] = "exhausted"


(* Groups after the one run() is at have not been touched *)
NoLaterGroupDispatched ==
    /\ \A p \in invoked : p.groupIdx <= index
    /\ \A j \in GroupIndices : j > index => groupState[j].status = "none"

FailureRecorded ==
    /\ failureBlob # "null"
    /\ requestState.status = "failed"
    /\ requestState.failureAt
    /\ "failed" \in LifecycleStatuses

AwaitFaults == {"deadline", "task_failures", "no_result", "retry_raises", "retry_none"}

(* Number of `completed` entries for group g of this request on the stream *)
CompletedArrivals(g) ==
    Cardinality({k \in 1 .. Len(updates) :
                    /\ updates[k].requestId = THIS_REQUEST
                    /\ updates[k].groupIdx = g
                    /\ updates[k].status = "completed"})

(* C7 as stated: with fewer than `expected` completed events for the awaited *)
(* group and the deadline passed, the run that has ended raised TimeoutError,*)
(* the request hash has status=failed and the group is not completed.        *)
C7_TimeoutWhenShort ==
    ( /\ pc = "raised"
      /\ fault \in AwaitFaults
      /\ deadlinePassed
      /\ CompletedArrivals(index) < groupState[index].expected )
    => /\ error = "TimeoutError"
       /\ requestState.status = "failed"
       /\ groupState[index].status # "completed"

(* C7 amended: a group gets status=completed only when at least `expected`   *)
(* completed events arrived for it; when the await loop meets its deadline   *)
(* check with the deadline passed and completions missing, the only step is  *)
(* to raise TimeoutError; and a run that ended in the await loop with the    *)
(* deadline passed has status=failed and an incomplete group, the error      *)
(* being TimeoutError exactly when the deadline check ended it (a batch      *)
(* returned by the last read may end it with its own error instead).         *)
C7_Amended ==
    /\ \A g \in GroupIndices :
          groupState[g].status = "completed" =>
              CompletedArrivals(g) >= groupState[g].expected
    /\ (pc = "await" /\ deadlinePassed /\ completed < valuation_index) =>
          /\ ENABLED TimeOut
          /\ ~ENABLED AwaitPoll
          /\ ~ENABLED CompleteGroup
    /\ ( /\ pc = "raised"
         /\ fault \in AwaitFaults
         /\ deadlinePassed
         /\ CompletedArrivals(index) < groupState[index].expected )
       => /\ requestState.status = "failed"
          /\ groupState[index].status # "completed"
          /\ (error = "TimeoutError" <=> fault = "deadline")

C7_Witness ==
    /\ pc = "raised"
    /\ fault = "deadline"
    /\ error = "TimeoutError"
    /\ CompletedArrivals(index) < groupState[index].expected
    /\ CompletedArrivals(index) > 0

(* C8: whenever run has raised after publishing `started`, the request has   *)
(* status=failed with failureAt, a failure detail is stored and a `failed`   *)
(* lifecycle event is published.                                             *)
C8_FailureAfterStarted ==
    (pc = "raised" /\ "started" \in LifecycleStatuses) => FailureRecorded

(* C9: whenever run has raised before publishing `started`, a failure blob   *)
(* is recorded, the status is failed and a `failed` lifecycle event exists.  *)
C9_FailureBeforeStarted ==
    (pc = "raised" /\ "started" \notin LifecycleStatuses) =>
        /\ failureBlob # "null"
        /\ requestState.status = "failed"
        /\ "failed" \in LifecycleStatuses

DeliveredBatch ==
    [i \in 1 .. Min(valuation_index, Len(updates) - cursor) |-> cursor + i]

(* A step of the await loop that handles the batch the read returned *)
BatchHandled == pc = "read" /\ pc' # "read"

(* C11: an update whose requestId is not the running request's is           *)
(* acknowledged and dropped: the batch it is delivered in leaves the         *)
(* completed counter, the pending failures, the group element, the           *)
(* group-state hash and the invoked payloads exactly as the batch without    *)
(* it would, and once the loop has handled it, it is not pending in the      *)
(* consumer group.                                                           *)
C11_OtherRequestDropped ==
    [][ BatchHandled =>
        LET ks == DeliveredBatch
            other == {ks[i] : i \in {j \in DOMAIN ks :
                                        /\ updates[ks[j]].requestId # THIS_REQUEST
                                        /\ \E h \in handled' : h[1] = ks[j]}}
            own == SelectSeq(ks, LAMBDA k : updates[k].requestId = THIS_REQUEST)
        IN /\ other \cap pel' = {}
           /\ other \cap Range(pending_failures') = {}
           /\ \E raiseAt \in 0 .. Len(own) :
                 LET s == ProcessBatch(BatchStart, own, raiseAt) IN
                 /\ completed' = s.completed
                 /\ pending_failures' = s.pending
                 /\ assembled'[index] = s.elem
                 /\ groupState'[index] = s.gs
                 /\ invoked' = invoked \cup s.handed
                 /\ inflight' = inflight \cup s.retries
      ]_vars

C11_Witness ==
    /\ \E h \in handled : h[2] = "other_request" /\ h[1] \notin pel
    /\ \E h \in handled : h[2] = "completed"
    /\ pc = "returned"

(* C12: an update of the running request for a group other than the awaited  *)
(* one is neither counted nor acknowledged: the batch it is delivered in     *)
(* changes counter, pending failures, group element, group-state hash and    *)
(* invoked payloads exactly as the batch without it would, and it stays in   *)
(* the pending list of the consumer group from then on; a `completed` entry  *)
(* of the awaited group handled in the same batch is counted and             *)
(* acknowledged.                                                             *)
C12_OtherGroupLeftPending ==
    [][ /\ pel \subseteq pel'
        /\ BatchHandled =>
            LET ks == DeliveredBatch
                reached == {ks[i] : i \in {j \in DOMAIN ks :
                                              \E h \in handled' : h[1] = ks[j]}}
                IsOther(k) == /\ updates[k].requestId = THIS_REQUEST
                              /\ updates[k].groupIdx # index
                current == SelectSeq(ks, LAMBDA k : ~IsOther(k))
            IN /\ \A k \in reached : IsOther(k) => k \in pel'
               /\ \A k \in reached :
                     ( /\ updates[k].requestId = THIS_REQUEST
                       /\ updates[k].groupIdx = index
                       /\ updates[k].taskId \in 1 .. valuation_index
                       /\ updates[k].status = "completed"
                       /\ <<index, updates[k].taskId>> \in results )
                     => /\ k \notin pel'
                        /\ completed' > completed
                        /\ updates[k].taskId \in Range(assembled'[index])
               /\ \E raiseAt \in 0 .. Len(current) :
                     LET s == ProcessBatch(BatchStart, current, raiseAt) IN
                     /\ completed' = s.completed
                     /\ pending_failures' = s.pending
                     /\ assembled'[index] = s.elem
                     /\ groupState'[index] = s.gs
                     /\ invoked' = invoked \cup s.handed
                     /\ inflight' = inflight \cup s.retries
      ]_vars

C12_Witness ==
    \E h1, h2 \in handled :
        /\ h1[2] = "other_group"
        /\ h2[2] = "completed"
        /\ h2[1] = h1[1] + 1
        /\ h1[1] \in pel
        /\ h2[1] \notin pel

(* Stream positions that hold an update of request r *)
UpdatesOf(r) == {k \in 1 .. Len(task_updates) : task_updates[k].requestId = r}

(* No worker has anything left to do and every run has returned or waits   *)
(* for completions with nothing new on the stream for it                     *)
SharedQuiescent ==
    /\ lambda_queue = {}
    /\ \A r \in Requests :
          \/ orchestrators[r].pc = "returned"
          \/ /\ orchestrators[r].pc = "await"
             /\ orchestrators[r].completed < orchestrators[r].valuation_index
             /\ consumer_groups[ConsumerGroupName(r)].last_delivered = Len(task_updates)

(* C13: with two orchestrators of distinct requests on the one updates       *)
(* stream, every update of a request that its consumer group has moved past  *)
(* was delivered to that request's orchestrator and none was published       *)
(* before the group existed; an orchestrator counts only delivered           *)
(* `completed` updates of its own request; and when the workers are done and *)
(* everything is delivered, both runs have returned with status succeeded    *)
(* and all their results.                                                    *)
C13_SharedStreamIsolation ==
    /\ \A r \in Requests :
         LET o == orchestrators[r]
             cg == consumer_groups[ConsumerGroupName(r)]
         IN /\ \A k \in UpdatesOf(r) :
                  /\ cg.created
                  /\ k <= cg.last_delivered => k \in o.delivered
            /\ o.counted \subseteq (UpdatesOf(r) \cap o.delivered)
            /\ \A g \in GroupIndices :
                  \A i \in 1 .. Len(o.group[g]) : <<r, g, o.group[g][i]>> \in task_results
            /\ o.pc = "await" =>
                  o.completed = Cardinality({k \in o.counted :
                                               task_updates[k].groupIdx = o.index})
    /\ SharedQuiescent =>
         \A r \in Requests :
            /\ orchestrators[r].pc = "returned"
            /\ orchestrators[r].status = "succeeded"
            /\ orchestrators[r].counted = UpdatesOf(r)
            /\ \A g \in 1 .. Len(requestGroups[r]) :
                  Len(orchestrators[r].group[g - 1]) = requestGroups[r][g]

C13_Witness ==
    /\ \A r \in Requests :
          /\ orchestrators[r].pc = "returned"
          /\ orchestrators[r].status = "succeeded"
          /\ Len(requestGroups[r]) = MaxGroups
    /\ \E i, j, k \in 1 .. Len(task_updates) :
          /\ i < j /\ j < k
          /\ task_updates[i].requestId = THIS_REQUEST
          /\ task_updates[j].requestId = OTHER_REQUEST
          /\ task_updates[k].requestId = THIS_REQUEST
          /\ task_updates[i].groupIdx = 0
          /\ task_updates[j].groupIdx = 0

(* C14: in a run that returned, the number of `completed` events counted    *)
(* for every group i equals the number N_i of tasks dispatched for it, and   *)
(* the assembled group holds exactly N_i result valuations (so that the      *)
(* total counted is N_1 + ... + N_G).                                        *)
C14_ExactCounts ==
    pc = "returned" =>
        \A g \in 0 .. (GroupCount - 1) :
            /\ groupState[g].completed = Expected(g)
            /\ Len(assembled[g]) = Expected(g)

RECURSIVE GroupEvents(_)
GroupEvents(i) ==
    IF i >= GroupCount THEN <<>>
    ELSE <<LifecycleEntry("group_started", i), LifecycleEntry("group_completed", i)>>
         \o GroupEvents(i + 1)

(* C15: when run has returned, the lifecycle stream holds exactly started,   *)
(* then group_started(i), group_completed(i) for each group i in order, then *)
(* completed; the response is stored under the key the event supplied, or    *)
(* under cache:request:{id}:response when it supplied none; run returned     *)
(* that key; and the request hash has status=succeeded.                      *)
C15_SuccessfulRun ==
    pc = "returned" =>
        /\ lifecycle = <<LifecycleEntry("started", -1)>> \o GroupEvents(0)
                          \o <<LifecycleEntry("completed", -1)>>
        /\ response
        /\ responseStored =
              (IF event = "cache:supplied" THEN "cache:supplied"
               ELSE "cache:request:req:response")
        /\ returned = responseStored
        /\ requestState.status = "succeeded"

C15_Witness ==
    /\ pc = "returned"
    /\ event = "cache:supplied"
    /\ GroupCount = MaxGroups
    /\ \A g \in GroupIndices : Expected(g) > 0

CountedFor(g) ==
    {h[1] : h \in {x \in handled : x[2] = "completed" /\ updates[x[1]].groupIdx = g}}

RECURSIVE InStreamOrder(_)
InStreamOrder(ks) ==
    IF ks = {} THEN <<>>
    ELSE LET first == CHOOSE k \in ks : \A j \in ks : k <= j
         IN <<updates[first].taskId>> \o InStreamOrder(ks \ {first})

(* C17: the result valuations of a group stand in the assembled group        *)
(* element in the order in which their `completed` entries were delivered    *)
(* on the updates stream, which need not be the dispatch order.              *)
C17_DeliveryOrder ==
    \A g \in GroupIndices : assembled[g] = InStreamOrder(CountedFor(g))

C17_Witness ==
    /\ pc = "returned"
    /\ assembled[0] = <<2, 1>>

(* C18: every payload handle_dispatch has handled has exactly one update of *)
(* its own on the updates stream, carrying its task and attempt: `completed`,*)
(* with the result stored under resultKey, or `failed`, with a failure blob  *)
(* recorded and the error raised; a payload whose task XML is missing has a  *)
(* `failed` update.                                                          *)
C18_OneUpdatePerDispatch ==
    \A w \in workerLog :
        LET p == w[1] IN
        /\ w[3] \in 1 .. Len(updates)
        /\ updates[w[3]] = UpdateEvent(THIS_REQUEST, p.groupIdx, p.taskId, w[2],
                                       p.attempt, WorkerUpdateKeys)
        /\ w[2] \in {"completed", "failed"}
        /\ w[2] = "completed" => <<p.groupIdx, p.taskId>> \in results
        /\ w[2] = "failed" => failureBlob # "null"
        /\ <<p.groupIdx, p.taskId>> \notin payloads => w[2] = "failed"
        /\ \A v \in workerLog : v[3] = w[3] => v = w

RECURSIVE CarriesHydrationSyntax(_)
CarriesHydrationSyntax(n) ==
    \/ n.attrs \cap {"href", "use", "select", "placeholder"} # {}
    \/ \E i \in DOMAIN n.kids : CarriesHydrationSyntax(n.kids[i])

(* hydrate_element has returned *)
HydrateReturned == h_pass = Len(Strategies) + 1 /\ h_items.ok

(* C20: when hydrate_element has returned, no node of any returned item,     *)
(* the item's own element and its descendants at any depth, carries an href, *)
(* use or select attribute or an attribute value of the form ${select(...)}. *)
C20_NoHydrationSyntaxLeft ==
    HydrateReturned =>
        \A i \in DOMAIN h_items.items : ~CarriesHydrationSyntax(h_items.items[i].element)

(* The group has been dispatched: _dispatch_group returned its descriptors *)
LinkGroupDispatched ==
    /\ groupState[0].status # "none"
    /\ pc # "dispatch"
    /\ fault \notin {"invoker_none", "invoker_raises"}

(* C19: a group whose single valuation carries use="vn:link(src, child)"     *)
(* matching k context nodes has expected=k in its group-state hash; once it  *)
(* is dispatched k payloads are stored and the invoker was called k times    *)
(* for it; a run that returns has k result valuations in the group.          *)
C19_LinkDispatchesK ==
    LET k == MatchedContextNodes(Len(link_matches)) IN
    /\ groupState[0].status # "none" => groupState[0].expected = k
    /\ LinkGroupDispatched =>
          /\ Cardinality(payloads) = k
          /\ Cardinality({p \in invoked : p.attempt = 1}) = k
    /\ returned # "none" => Len(assembled[0]) = k

(* C19 witness: two matched elements with three children between them, and  *)
(* the run has returned                                                      *)
C19_Witness ==
    /\ Len(link_matches) = 2
    /\ MatchedContextNodes(2) = 3
    /\ h_items # <<>>
    /\ returned # "none"

(* C30: an update of the running request and the awaited group whose taskId  *)
(* is not among the dispatched descriptors is acknowledged and dropped: the  *)
(* batch it is delivered in changes the completed counter, the pending       *)
(* failures, the group element, the group-state hash and the payloads handed *)
(* to the invoker (retries) exactly as the batch without it would, and once  *)
(* the loop has handled it, it is not pending in the consumer group.         *)
C30_UnknownTaskDropped ==
    [][ BatchHandled =>
        LET ks == DeliveredBatch
            IsUnknown(k) == /\ updates[k].requestId = THIS_REQUEST
                            /\ updates[k].groupIdx = index
                            /\ updates[k].taskId \notin 1 .. valuation_index
            unknown == {ks[i] : i \in {j \in DOMAIN ks :
                                          /\ IsUnknown(ks[j])
                                          /\ \E h \in handled' : h[1] = ks[j]}}
            known == SelectSeq(ks, LAMBDA k : ~IsUnknown(k))
        IN /\ unknown \cap pel' = {}
           /\ unknown \cap Range(pending_failures') = {}
           /\ \E raiseAt \in 0 .. Len(known) :
                 LET s == ProcessBatch(BatchStart, known, raiseAt) IN
                 /\ completed' = s.completed
                 /\ pending_failures' = s.pending
                 /\ assembled'[index] = s.elem
                 /\ groupState'[index] = s.gs
                 /\ invoked' = invoked \cup s.handed
                 /\ inflight' = inflight \cup s.retries
      ]_vars

(* C30 witness: an update with an unknown task id was handled and is not    *)
(* pending, and the run went on to return                                    *)
C30_Witness ==
    /\ \E h \in handled : /\ h[2] = "unknown_task"
                          /\ h[1] \notin pel
                          /\ updates[h[1]].status = "completed"
    /\ \A g \in DOMAIN groupSizes : groupSizes[g] > 0
    /\ pc = "returned"

(* The descriptors of group g, in dispatch order *)
DescriptorsOf(g) == SelectSeq(descriptors, LAMBDA d : d.group_index = g)

(* C29: the task ids of the descriptors of one group are the strings "1",    *)
(* "2", ... in dispatch order, hence pairwise distinct, and no payload or    *)
(* result key of a task is a payload or result key of another task of the    *)
(* request, whichever groups the two tasks are in.                           *)
C29_DistinctTaskIdsAndKeys ==
    /\ \A g \in 0 .. (k_groups - 1) :
          LET ds == DescriptorsOf(g) IN
          /\ \A n \in DOMAIN ds : ds[n].task_id = str(n)
          /\ \A m, n \in DOMAIN ds : m # n => ds[m].task_id # ds[n].task_id
    /\ \A i, j \in DOMAIN descriptors :
          i # j => {descriptors[i].xml_key, descriptors[i].result_key}
                   \cap {descriptors[j].xml_key, descriptors[j].result_key} = {}
    /\ \A i \in DOMAIN descriptors : descriptors[i].xml_key # descriptors[i].result_key

(* C29 witness: every group of a request with several groups of more than   *)
(* ten tasks each has been dispatched                                        *)
C29_Witness ==
    /\ k_groups > 10
    /\ k_valuations > 10
    /\ Len(descriptors) = k_groups * k_valuations

(* C27: no payload is handed to the invoker before the consumer group of the *)
(* request exists, so no update a worker publishes for a task of the request *)
(* is skipped by the group: it has been delivered or is still to be          *)
(* delivered; xgroup_create failing with BUSYGROUP does not fail the run,    *)
(* any other creation error ends it before anything is started.              *)
C27_GroupEnsuredBeforeDispatch ==
    /\ invoked # {} => cursor >= 0
    /\ \A w \in workerLog :
          w[3] > 0 => \/ w[3] > cursor
                      \/ w[3] \in pel
                      \/ \E h \in handled : h[1] = w[3]
    /\ fault = "xgroup_create" =>
          /\ error = "ResponseError"
          /\ pc = "raised"
          /\ invoked = {}
          /\ requestState.status = "none"

(* C27 witness: the group was ensured, tasks were handed to the invoker, an *)
(* update a worker published was delivered and handled, and the run returned *)
C27_Witness ==
    /\ pc = "returned"
    /\ cursor >= 0
    /\ invoked # {}
    /\ \E w \in workerLog : w[3] > 0 /\ \E h \in handled : h[1] = w[3]

(* C28: when _dispatch_group hands a task to the invoker, the group-state    *)
(* hash of its group already is {expected=N, completed=0, failed=0,          *)
(* status=running}, the payload of the task is stored under its payloadKey   *)
(* (also when the invoker then fails), and the dispatch payload has attempt  *)
(* 1; no worker ever finds the payload of a dispatched task missing.         *)
C28_HashAndPayloadBeforeInvoke ==
    [][ /\ pc = "dispatch" =>
            /\ \A p \in invoked' \ invoked :
                  /\ p.attempt = 1
                  /\ p.groupIdx = index
                  /\ groupState[index] = [expected |-> Expected(index), completed |-> 0,
                                          failed |-> 0, status |-> "running"]
                  /\ <<p.groupIdx, p.taskId>> \in payloads'
            /\ fault' \in {"invoker_none", "invoker_raises"} =>
                  /\ <<index, valuation_index + 1>> \in payloads'
                  /\ groupState'[index].status = "running"
        /\ \A w \in workerLog' \ workerLog :
              w[1].attempt = 1 => <<w[1].groupIdx, w[1].taskId>> \in payloads
      ]_vars

(* C28 witness: the second task of a group was handed to the invoker, which  *)
(* rejected it                                                               *)
C28_Witness ==
    /\ fault = "invoker_raises"
    /\ valuation_index = 1
    /\ Cardinality(invoked) = 2
    /\ Cardinality(payloads) = 2

(* The strategies hydrate_element has applied so far, in order *)
AppliedStrategies == SubSeq(Strategies, 1, h_pass - 1)

(* C22: the engine applies Href, UseFunction, AttributeSelect, Select, Href  *)
(* in this order: what it has applied so far is a prefix of that list, and   *)
(* when hydrate_element returns it has applied all five.                     *)
C22_PipelineOrder ==
    LET pipeline == <<"href", "use", "attribute_select", "select", "href">> IN
    /\ Len(AppliedStrategies) <= Len(pipeline)
    /\ AppliedStrategies = SubSeq(pipeline, 1, Len(AppliedStrategies))
    /\ HydrateReturned => AppliedStrategies = pipeline

(* The i-th input item carries a `use` attribute on its own element *)
CarriesUse(i) == "use" \in u_items[i].element.attrs

(* The number of items the first n input items are replaced by when every    *)
(* item with `use` is replaced by k clones                                   *)
RECURSIVE UseOffset(_, _)
UseOffset(n, k) ==
    IF n = 0 THEN 0
    ELSE UseOffset(n - 1, k) + (IF CarriesUse(n) THEN k ELSE 1)

(* The context nodes vn:link binds: child c of element match m *)
LinkedChildren ==
    {<<m, c>> \in (DOMAIN link_matches) \X (1 .. MaxChildren) :
        link_matches[m].is_element /\ c <= link_matches[m].children}

(* The call returned: items without `use` are unchanged and in their         *)
(* original order, every item with `use` is replaced by one clone per        *)
(* matched child, without `use` and bound to that child.                     *)
UseExpanded ==
    LET k == Cardinality(LinkedChildren)
        out == u_result.items
    IN /\ u_result.ok
       /\ Len(out) = UseOffset(Len(u_items), k)
       /\ \A i \in DOMAIN u_items :
            LET first == UseOffset(i - 1, k) + 1 IN
            IF ~CarriesUse(i) THEN out[first] = u_items[i]
            ELSE /\ \A j \in first .. (first + k - 1) :
                      out[j].element = [u_items[i].element EXCEPT !.attrs = @ \ {"use"}]
                 /\ {out[j].context_node : j \in first .. (first + k - 1)} = LinkedChildren

(* The call raised HydrationError *)
UseRaisedHydrationError == ~u_result.ok /\ u_result.exc = "HydrationError"

(* The claim's cases for the items of a call that has returned *)
UseCase ==
    IF \A i \in DOMAIN u_items : ~CarriesUse(i) THEN "pass"
    ELSE IF use_attr = EmptyUse THEN "empty"
    ELSE IF use_attr.prefix # "vn" \/ use_attr.function # "link" THEN "unsupported"
    ELSE IF use_attr # VnLink THEN "malformed"
    ELSE IF LinkedChildren = {} THEN "no clone"
    ELSE "link"

(* C25: UseFunctionHydrationStrategy.apply returns items without `use`       *)
(* unchanged and in their original order, replaces an item carrying          *)
(* vn:link(src, child) by one clone per matched child, each without `use`    *)
(* and bound to that child as context node, and raises HydrationError when   *)
(* the expansion yields no clone or when the prefix is not vn or the         *)
(* function is not link.                                                     *)
C25_UseFunctionApply ==
    u_pc = "returned" =>
        /\ UseCase \in {"pass", "link"} => UseExpanded
        /\ UseCase \in {"no clone", "unsupported"} => UseRaisedHydrationError

(* C25 for every value of `use` except those that end with ")" and have no   *)
(* "(": the statement holds.                                                 *)
C25_ExceptUnopenedParenthesis ==
    (u_pc = "returned" /\ ~(use_attr.close /\ ~use_attr.open)) =>
        /\ UseCase \in {"pass", "link"} => UseExpanded
        /\ UseCase \in {"no clone", "unsupported"} => UseRaisedHydrationError

(* Two items, the first without `use` and the second with vn:link, and two   *)
(* matched elements with three children between them                         *)
C25_LinkReached ==
    /\ u_pc = "returned"
    /\ UseCase = "link"
    /\ Len(u_items) = 2 /\ ~CarriesUse(1) /\ CarriesUse(2)
    /\ Cardinality(LinkedChildren) = 3
    /\ Len(u_result.items) = 4

(* The number of elements the XPath of the select expression matches *)
SelectedElements ==
    Cardinality({i \in DOMAIN select_source.matches : select_source.matches[i] = "element"})

(* The cases in which a select attribute seen with this context node has no  *)
(* referenced node: an expression that is neither absolute nor relative, a   *)
(* relative one without a context node, or an XPath that does not match      *)
(* exactly one element.                                                      *)
SelectUnresolvable(context_node) ==
    LET select_expr == select_source.expr IN
    \/ select_expr = SelectExpressions.other
    \/ select_expr \in {SelectExpressions.context, SelectExpressions.relative}
          /\ context_node = NoContext
    \/ select_expr = SelectExpressions.absolute /\ SelectedElements # 1
    \/ select_expr = SelectExpressions.relative /\ context_node # NoContext
          /\ SelectedElements # 1

(* The Select strategy is applied to items of which one has a select node    *)
(* that cannot be resolved                                                   *)
SelectPassOnUnresolvable ==
    /\ h_pass \in DOMAIN Strategies
    /\ Strategies[h_pass] = "select"
    /\ h_pass' = h_pass + 1
    /\ h_items.ok
    /\ \E i \in DOMAIN h_items.items :
          /\ HasSelectNodes(h_items.items[i].element,
                            "use" \in h_items.items[i].element.attrs)
          /\ SelectUnresolvable(h_items.items[i].context_node)

MergedAttributesOverlaid ==
    /\ DOMAIN m_merged.attrib = (DOMAIN m_remote.attrib \cup DOMAIN m_local.attrib) \ {m_kind}
    /\ \A key \in DOMAIN m_merged.attrib :
          m_merged.attrib[key] = IF key \in DOMAIN m_local.attrib THEN "local" ELSE "remote"

(* The merged text is the local text when that is non-blank, the remote text *)
(* otherwise                                                                 *)
MergedTextLocalFirst ==
    m_merged.text = IF m_local.text = "local" THEN "local" ELSE m_remote.text

(* C23: merging a local node with its resolved remote node, for href and for *)
(* select, yields a node whose attributes are the remote attributes overlaid *)
(* by the local ones with the reference attribute dropped, whose text is the *)
(* local text whenever the local text is non-blank and the remote text       *)
(* otherwise, and whose tail is the local tail.                              *)
C23_MergePrecedence ==
    m_kind \in {"href", "select"} =>
        /\ MergedAttributesOverlaid
        /\ MergedTextLocalFirst
        /\ m_merged.tail = m_local.tail

(* C23 without the text of a local node that carries `select`: the           *)
(* attributes and the tail are as stated for every merge, and the text for   *)
(* every local node without a select attribute.                              *)
C23_ExceptTextOfSelectNode ==
    m_kind \in {"href", "select"} =>
        /\ MergedAttributesOverlaid
        /\ "select" \notin DOMAIN m_local.attrib => MergedTextLocalFirst
        /\ m_merged.tail = m_local.tail

(* Hydrating the element again, with the same engine and document root,      *)
(* returns a single item with a structurally equal element                   *)
RehydratesToItself(element) ==
    LET again == HydrateElement(element, NoContext) IN
    /\ again.ok
    /\ Len(again.items) = 1
    /\ again.items[1].element = element

(* C26: hydration is idempotent: hydrating each element returned by          *)
(* hydrate_element again with the same engine and root returns a single item *)
(* structurally equal to that element.                                       *)
C26_Idempotent ==
    HydrateReturned =>
        \A i \in DOMAIN h_items.items : RehydratesToItself(h_items.items[i].element)

(* C26 for the returned elements that carry no hydration syntax any more *)
C26_IdempotentWhenFullyHydrated ==
    HydrateReturned =>
        \A i \in DOMAIN h_items.items :
            ~CarriesHydrationSyntax(h_items.items[i].element)
                => RehydratesToItself(h_items.items[i].element)

(* C21: hydrate_element leaves its input element, the document root (with    *)
(* every context node) and the remote document unchanged, and every returned *)
(* element is a fresh subtree, so that mutating a returned element changes   *)
(* neither the input element nor the document root.                          *)
C21_InputsUnchangedOutputsFresh ==
    /\ a_pass > 0 => a_heap.written \cap GivenTrees = {}
    /\ \A i \in DOMAIN a_items :
          /\ a_items[i].element \notin GivenTrees
          /\ \A j \in DOMAIN a_items : a_items[i].element = a_items[j].element => i = j

(* An element with href and select below it and its own `use` was hydrated   *)
(* into two clones, and the caller has mutated one of them                   *)
C21_Witness ==
    /\ a_pass = Len(Strategies) + 2
    /\ a_shape = [href |-> TRUE, use |-> TRUE, select |-> TRUE]
    /\ Len(a_items) = 2
    /\ \E i \in DOMAIN a_items : a_items[i].element \in a_heap.written

(* C31: the group-state hash of every group that has one satisfies           *)
(* completed + failed <= expected; status=completed holds only when          *)
(* completed = expected and failed = 0; and the completed field equals the   *)
(* number of result valuations appended to the in-memory group element.      *)
C31_GroupHashConsistent ==
    \A g \in GroupIndices :
        groupState[g].status # "none" =>
            /\ groupState[g].completed + groupState[g].failed <= groupState[g].expected
            /\ groupState[g].status = "completed" =>
                  /\ groupState[g].completed = groupState[g].expected
                  /\ groupState[g].failed = 0
            /\ groupState[g].completed = Len(assembled[g])

(* C31 for runs in which no other publisher adds an entry to the stream *)
C31_WithoutForeignEntries ==
    foreignCount = 0 => C31_GroupHashConsistent


----------------------------------------------------------------------------
(* Failure records of a run *)

(* The `failed` lifecycle events published so far.  Every one is published   *)
(* by a call of _record_request_failure, which also sets the failure blob.   *)
FailedEvents == {i \in 1 .. Len(lifecycle) : lifecycle[i].status = "failed"}

(* The failures that the except clause of run() sees *)
GroupLoopFaults ==
    {"hydrate_group", "invoker_none", "invoker_raises", "deadline",
     "task_failures", "no_result", "retry_raises", "retry_none"}

(* C32: a run that failed inside the group loop has published exactly one    *)
(* `failed` lifecycle event and recorded the failure detail exactly once,    *)
(* whichever failure caused it.                                              *)
C32_OneFailureRecord ==
    (pc = "raised" /\ fault \in GroupLoopFaults) =>
        Cardinality(FailedEvents) = 1

(* C32 for every failure but the exhausted retries *)
C32_ExceptExhaustedRetries ==
    (pc = "raised" /\ fault \in GroupLoopFaults \ {"task_failures"}) =>
        Cardinality(FailedEvents) = 1

(* C32, exhausted retries: the failure is recorded by the await loop and     *)
(* again by the except clause of run().                                      *)
C32_ExhaustedRecordedTwice ==
    (pc = "raised" /\ fault = "task_failures") =>
        Cardinality(FailedEvents) = 2



(* C33: the failure blob is non-null only for requests that end with         *)
(* status=failed; a request that ends succeeded has no failure blob, also    *)
(* when one of its tasks failed and was retried.                             *)
C33_BlobOnlyWhenFailed ==
    (Terminated /\ failureBlob # "null") => requestState.status = "failed"

(* C33 for the blob written by the orchestrator alone *)
C33_OrchestratorBlobOnlyWhenFailed ==
    failureBlob = "orchestrator" => requestState.status = "failed"

C33_WithoutForeignEntries ==
    (foreignCount = 0 /\ pc = "returned") => failureBlob = "null"



(* C34: the response key is written only after every group has               *)
(* status=completed and before the request status becomes succeeded, and a   *)
(* run that failed has not written the response key.                         *)
C34_ResponseAfterGroupsBeforeSucceeded ==
    /\ response =>
          \A g \in 0 .. (GroupCount - 1) : groupState[g].status = "completed"
    /\ requestState.status = "succeeded" => response
    /\ pc = "raised" => ~response

(* C34 for the runs that fail inside the group loop: with status=failed, or  *)
(* raised under the except clause, the response key is not written.          *)
C34_ResponseOnlyWhenSucceeding ==
    /\ response =>
          \A g \in 0 .. (GroupCount - 1) : groupState[g].status = "completed"
    /\ requestState.status = "succeeded" => response
    /\ requestState.status = "failed" => ~response
    /\ (pc = "raised" /\ fault \in GroupLoopFaults) => ~response

C34_Witness ==
    /\ pc = "mark"
    /\ response
    /\ GroupCount = 2
    /\ requestState.status = "running"

C34_WitnessFailed ==
    /\ pc = "raised"
    /\ fault = "deadline"
    /\ index = 1
    /\ ~response



(* A step keeps a terminal request status *)
StatusStaysTerminal ==
    /\ requestState.status = "succeeded" => requestState'.status = "succeeded"
    /\ requestState.status = "failed" => requestState'.status = "failed"

(* C35: once the request status is succeeded or failed no step of the run    *)
(* changes it, and the lifecycle stream never holds both a `completed` and   *)
(* a `failed` event of the run.                                              *)
C35_StatusTerminal ==
    /\ [][StatusStaysTerminal]_vars
    /\ [](~({"completed", "failed"} \subseteq LifecycleStatuses))

C35_Witness ==
    /\ pc = "raised"
    /\ fault = "publish_completed"
    /\ requestState.status = "succeeded"
    /\ "completed" \notin LifecycleStatuses



----------------------------------------------------------------------------
(* Acknowledgement of the updates of the awaited group *)

(* The outcomes of an update of the current request and group with a known   *)
(* taskId whose handling ran to its end                                      *)
HandledOutcomes == {"completed", "retry", "exhausted", "ignored"}

(* The delivered stream positions that hold an update of this request for    *)
(* group g                                                                   *)
DeliveredFor(g) ==
    {k \in 1 .. cursor : SameRequest(updates[k]) /\ updates[k].groupIdx = g}

(* Group g has just reached status=completed *)
JustCompleted(g) ==
    /\ pc = "loop"
    /\ index = g + 1
    /\ groupState[g].status = "completed"

(* C37, first part: every update of the current request and group with a     *)
(* known taskId that has been handled is acknowledged, whatever its status.  *)
C37_HandledAcknowledged ==
    \A h \in handled : h[2] \in HandledOutcomes => h[1] \notin pel

C37_WitnessAnyStatus ==
    /\ JustCompleted(0)
    /\ \E h \in handled : h[2] = "ignored"
    /\ \E h \in handled : h[2] = "completed"
    /\ pel = {}


----------------------------------------------------------------------------
(* Termination of run() *)

(* The steps run() takes itself: each statement returns, and each blocking   *)
(* stream read returns within DEFAULT_BLOCK_MS.                              *)
OrchestratorStep ==
    \/ LoadRequest
    \/ StartRequest
    \/ BeginGroup
    \/ DispatchTask
    \/ AwaitStart
    \/ AwaitPoll
    \/ AwaitRead
    \/ CompleteGroup
    \/ TimeOut
    \/ WriteResponse
    \/ MarkSucceeded
    \/ PublishCompleted

(* run() keeps taking steps and the clock advances past the deadline of the  *)
(* awaited group; nothing is assumed of the workers and other publishers.    *)
MaxFairTasks == 2

(* Number of valuations of the project *)
RECURSIVE TotalTasks(_)
TotalTasks(sizes) == IF sizes = <<>> THEN 0 ELSE Head(sizes) + TotalTasks(Tail(sizes))

(* The requests whose runs are followed to their end *)
InitFair == Init /\ TotalTasks(groupSizes) <= MaxFairTasks

FairSpec ==
    /\ InitFair
    /\ [][Next]_vars
    /\ WF_vars(OrchestratorStep)
    /\ WF_vars(DeadlinePasses)

(* C36: every run terminates: it eventually either returns with             *)
(* status=succeeded or raises with status=failed, whatever updates the       *)
(* workers publish or fail to publish.                                       *)
C36_RunTerminates ==
    <>(\/ pc = "returned" /\ requestState.status = "succeeded"
       \/ pc = "raised" /\ requestState.status = "failed")

(* C36, termination alone: every run eventually returns or raises *)
C36_EventuallyTerminated == <>Terminated

(* C36, the status at the end: succeeded when run() returned, failed when    *)
(* it raised inside the group loop.                                          *)
C36_TerminalStatus ==
    /\ pc = "returned" => requestState.status = "succeeded"
    /\ (pc = "raised" /\ fault \in GroupLoopFaults) => requestState.status = "failed"

C36_Witness ==
    /\ pc = "raised"
    /\ fault = "deadline"
    /\ workerLog = {}
    /\ foreignCount = MaxForeign
    /\ cursor = Len(updates)



----------------------------------------------------------------------------
(* One SelectHydrationStrategy instance over the hydrate calls of a run: the *)
(* engine, and with it the strategy and its _reference_cache, is created     *)
(* once in RequestOrchestrator.__init__ and used for the root, every group   *)
(* and every valuation.                                                      *)

MaxRoots == 2
MaxSplices == 1

(* The absolute select expressions of the request *)
CacheExpressions == {"/project/a", "/project/b"}

(* An element object: the tree it was created in and its number there *)
Element(doc, n) == [kind |-> "element", doc |-> doc, n |-> n]

TextMatch == [kind |-> "text", doc |-> -1, n |-> 0]

NoElement == [kind |-> "none", doc |-> -1, n |-> 0]

(* What the XPath of an expression can match in the parsed request *)
InitialMatches ==
    {<<>>, <<TextMatch>>, <<Element(0, 1)>>, <<Element(0, 1), Element(0, 2)>>}

(* copy.deepcopy of a tree: every element is a new object of the new tree *)
CopiedInto(doc, matches) ==
    [i \in DOMAIN matches |->
        IF matches[i].kind = "element" THEN Element(doc, matches[i].n) ELSE matches[i]]

(* The elements among the matches of an XPath *)
MatchedElements(matches) == SelectSeq(matches, LAMBDA m : m.kind = "element")

(* The outcome of _resolve_reference: the element returned / the exception   *)
(* raised, and the cache as the call leaves it                               *)
Resolved(node, cache) == [exc |-> "none", node |-> node, cache |-> cache]

ResolveRaised(cache) == [exc |-> "HydrationError", node |-> NoElement, cache |-> cache]

(* _resolve_reference on an absolute expression with an empty cache: the     *)
(* XPath is evaluated in the document root of the call                       *)
ResolveInDocument(select_expr, found) ==
    LET elements == MatchedElements(found[select_expr]) IN
    IF Len(elements) # 1 THEN NoElement ELSE elements[1]

(* _resolve_reference, the branch select_expr.startswith("/"): the cached    *)
(* element when the expression is a key of the cache, else the validated     *)
(* match in document_root, which is put in the cache.  _validate_match       *)
(* raises before the assignment, so a failed lookup caches nothing.          *)
ResolveAbsolute(cache, select_expr, found) ==
    IF cache[select_expr] # NoElement
    THEN Resolved(cache[select_expr], cache)
    ELSE LET node == ResolveInDocument(select_expr, found) IN
         IF node = NoElement THEN ResolveRaised(cache)
         ELSE Resolved(node, [cache EXCEPT ![select_expr] = node])

InitCache ==
    /\ RunIdle
    /\ SharedIdle
    /\ HydrationIdle
    /\ KeysIdle
    /\ UseIdle
    /\ MergeIdle
    /\ TreesIdle
    /\ RemoteIdle
    /\ c_root \in [id : {0}, splices : {0}, found : [CacheExpressions -> InitialMatches]]
    /\ reference_cache = [e \in CacheExpressions |-> NoElement]
    /\ c_result = [expr |-> "none", root |-> -1, splices |-> -1, found |-> <<>>,
                   exc |-> "none", node |-> NoElement]

(* SelectHydrationStrategy.apply resolves the select of one node during a    *)
(* hydrate_element(element, root) call of the run                            *)
ResolveReferenceCall ==
    /\ \E select_expr \in CacheExpressions :
         LET r == ResolveAbsolute(reference_cache, select_expr, c_root.found) IN
         /\ reference_cache' = r.cache
         /\ c_result' = [expr |-> select_expr, root |-> c_root.id,
                         splices |-> c_root.splices, found |-> c_root.found,
                         exc |-> r.exc, node |-> r.node]
    /\ UNCHANGED <<runVars, sharedVars, hydVars, keyVars, useVars, mergeVars, treeVars,
                   remoteVars, c_root>>

(* run() lines 91-93: `root = hydrated_items[0].element`, the hydrated deep  *)
(* copy of the parsed request replaces the root the later calls are given    *)
ReplaceRoot ==
    /\ c_root.id < MaxRoots - 1
    /\ c_root' = [c_root EXCEPT !.id = @ + 1,
                                !.found = [e \in CacheExpressions |->
                                              CopiedInto(c_root.id + 1, c_root.found[e])]]
    /\ UNCHANGED <<runVars, sharedVars, hydVars, keyVars, useVars, mergeVars, treeVars,
                   remoteVars, reference_cache, c_result>>

(* _await_group_completion lines 249-252 and 305: the valuations of a group  *)
(* are removed from the root and the result valuations appended, so an       *)
(* expression that matched a removed element matches a new one of this tree  *)
SpliceResults ==
    /\ c_root.splices < MaxSplices
    /\ \E e \in CacheExpressions :
         /\ MatchedElements(c_root.found[e]) # <<>>
         /\ c_root' = [c_root EXCEPT
                          !.splices = @ + 1,
                          !.found[e] = <<Element(c_root.id, 3 + c_root.splices)>>]
    /\ UNCHANGED <<runVars, sharedVars, hydVars, keyVars, useVars, mergeVars, treeVars,
                   remoteVars, reference_cache, c_result>>

NextCache ==
    \/ ResolveReferenceCall
    \/ ReplaceRoot
    \/ SpliceResults

SpecCache == InitCache /\ [][NextCache]_vars

(* The last call resolved an absolute expression *)
CacheCalled == c_result.expr # "none"

(* The last call returned what the expression matches in the document root   *)
(* it was given, or raised because it matches no single element there        *)
ResolvedInCurrentRoot ==
    LET node == ResolveInDocument(c_result.expr, c_result.found) IN
    IF node = NoElement THEN c_result.exc = "HydrationError"
    ELSE c_result.exc = "none" /\ c_result.node = node

(* C38: resolving an absolute select expression returns the element the      *)
(* expression matches in the document root passed to the current call,       *)
(* never an element of an earlier root or of the tree before it was modified *)
C38_CacheReturnsCurrentMatch ==
    CacheCalled => ResolvedInCurrentRoot

(* C38 while the root is the parsed request, unmodified: the first hydrate   *)
(* call of the run                                                           *)
C38_FirstRoot ==
    (CacheCalled /\ c_result.root = 0 /\ c_result.splices = 0) => ResolvedInCurrentRoot

(* C38, the element returned is one that matched the expression in some root *)
(* of the run: the cache never mixes expressions                             *)
C38_ReturnsEarlierRoot ==
    (CacheCalled /\ c_result.exc = "none" /\ ~ResolvedInCurrentRoot) =>
        \/ c_result.node.doc < c_result.root
        \/ c_result.splices > 0



----------------------------------------------------------------------------
(* HrefHydrationStrategy._hydrate_href_nodes over remote documents whose     *)
(* elements carry href themselves.  The remote documents are a forest of     *)
(* elements; an element that carries href has no children.  The element      *)
(* being hydrated is followed by the nodes in it that carry href, each       *)
(* given by the remote element _locate_remote_node finds for it.             *)

MaxRemote == 4

RemoteElements == 1 .. MaxRemote

NoHref == 0

(* _locate_remote_node raises: no single match in the remote document *)
Unlocated == -1

(* The root of the remote document an element is in *)
RECURSIVE DocumentOf(_, _)
DocumentOf(parent, n) == IF parent[n] = 0 THEN n ELSE DocumentOf(parent, parent[n])

(* list(remote) and below: the elements of the subtree under t *)
RECURSIVE Below(_, _)
Below(parent, t) ==
    LET children == {m \in RemoteElements : parent[m] = t} IN
    children \cup UNION {Below(parent, c) : c \in children}

(* _merge_elements(node, remote, ignore_remote_attrs={"href"}) for a node    *)
(* without children: the remote element's own href is left out, its children *)
(* are deep-copied as they are.  The nodes of the merged element that carry  *)
(* href, each as the remote element its href resolves to.                    *)
MergedHrefNodes(parent, href, t) ==
    {href[d] : d \in {m \in Below(parent, t) : href[m] # NoHref}}

(* The remote documents a request can refer to: a copied element's href      *)
(* resolves to the element it was copied from, to an element of another      *)
(* document, or to nothing.                                                  *)
RemoteInputs ==
    {in \in [parent : [RemoteElements -> 0 .. (MaxRemote - 1)],
             href : [RemoteElements -> {Unlocated, NoHref} \cup RemoteElements]] :
        /\ \A n \in RemoteElements : in.parent[n] < n
        /\ \A n \in RemoteElements :
              /\ in.href[n] # NoHref => \A m \in RemoteElements : in.parent[m] # n
              /\ in.href[n] \in RemoteElements =>
                    \/ in.href[n] = n
                    \/ DocumentOf(in.parent, in.href[n]) # DocumentOf(in.parent, n)}

InitRemote ==
    /\ RunIdle
    /\ SharedIdle
    /\ HydrationIdle
    /\ KeysIdle
    /\ UseIdle
    /\ MergeIdle
    /\ TreesIdle
    /\ CacheIdle
    /\ \E in \in RemoteInputs :
         /\ remote_parent = in.parent
         /\ remote_href = in.href
    /\ nodes_with_href \in {{t} : t \in RemoteElements \cup {Unlocated}} \cup {{}}
    /\ r_pc = "idle"

(* HrefHydrationStrategy.apply calls _hydrate_href_nodes(item.element) *)
HydrateHrefNodesCall ==
    /\ r_pc = "idle"
    /\ r_pc' = "loop"
    /\ UNCHANGED <<runVars, sharedVars, hydVars, keyVars, useVars, mergeVars, treeVars,
                   cacheVars, remote_parent, remote_href, nodes_with_href>>

(* `if not nodes_with_href: break` *)
HrefLoopBreak ==
    /\ r_pc = "loop"
    /\ nodes_with_href = {}
    /\ r_pc' = "returned"
    /\ UNCHANGED <<runVars, sharedVars, hydVars, keyVars, useVars, mergeVars, treeVars,
                   cacheVars, remote_parent, remote_href, nodes_with_href>>

(* _hydrate_single_node raises HydrationError for a node of the pass *)
HrefLoopRaise ==
    /\ r_pc = "loop"
    /\ Unlocated \in nodes_with_href
    /\ r_pc' = "raised"
    /\ UNCHANGED <<runVars, sharedVars, hydVars, keyVars, useVars, mergeVars, treeVars,
                   cacheVars, remote_parent, remote_href, nodes_with_href>>

(* One pass of `while True`: every node with href is replaced by its merge   *)
(* with the remote element; the next xpath(".//*[@href]") finds the href     *)
(* nodes of the merged elements.                                             *)
HrefLoopPass ==
    /\ r_pc = "loop"
    /\ nodes_with_href # {}
    /\ Unlocated \notin nodes_with_href
    /\ nodes_with_href' =
          UNION {MergedHrefNodes(remote_parent, remote_href, t) : t \in nodes_with_href}
    /\ UNCHANGED <<runVars, sharedVars, hydVars, keyVars, useVars, mergeVars, treeVars,
                   cacheVars, remote_parent, remote_href, r_pc>>

NextRemote ==
    \/ HydrateHrefNodesCall
    \/ HrefLoopBreak
    \/ HrefLoopRaise
    \/ HrefLoopPass

(* The call runs: each statement of the loop is eventually executed *)
SpecRemote == InitRemote /\ [][NextRemote]_vars /\ WF_vars(NextRemote)

(* Remote elements reached from t by merges, in at most k passes *)
RECURSIVE ReachedFrom(_, _)
ReachedFrom(ts, k) ==
    IF k = 0 THEN ts
    ELSE LET next == UNION {MergedHrefNodes(remote_parent, remote_href, t) :
                               t \in ts \cap RemoteElements}
         IN ts \cup ReachedFrom(next, k - 1)

(* A remote element whose merge leads, through the href nodes it brings,     *)
(* to a merge with the same element again                                    *)
RefersBackToItself ==
    \E t \in RemoteElements :
        t \in ReachedFrom(MergedHrefNodes(remote_parent, remote_href, t), MaxRemote)

HrefLoopEnded == r_pc \in {"returned", "raised"}

(* C39: hydrate_element terminates on every finite input, returning items or *)
(* raising HydrationError: the repeat-until-no-href loop reaches a fixed     *)
(* point, also when remote documents refer back to one another.              *)
C39_HrefLoopTerminates == <>HrefLoopEnded

(* C39 when no remote element refers back to itself through other documents *)
C39_TerminatesWithoutCycle == <>(HrefLoopEnded \/ RefersBackToItself)

(* C39, the loop ends only with no href left or by HydrationError *)
C39_EndsAtFixedPoint ==
    /\ r_pc = "returned" => nodes_with_href = {}
    /\ r_pc = "raised" => Unlocated \in nodes_with_href


====
